---------------------------- MODULE MCWriteBuffer ----------------------------
(* Constants of the TLC run of WriteBuffer. *)
EXTENDS WriteBuffer

CONSTANT x   \* the inode

MCIno == {x}

\* A buffer longer than a chunk: written at an even offset it fills a chunk and
\* starts the next, at an odd one it ends a chunk and fills the next.  Its bytes
\* differ, so that a misplaced one shows.
MCBytes    == {0, 1, 2}
MCPayloads == {<<1, 2, 1>>}

==============================================================================
