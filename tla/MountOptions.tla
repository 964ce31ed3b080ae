---------------------------- MODULE MountOptions ----------------------------
(***************************************************************************)
(* From the command line to the mount: parse_size of src/cli.rs, and       *)
(* run_with_mounter, mount_options_for, parse_option and mount_failure of  *)
(* src/run.rs.                                                             *)
(*                                                                         *)
(* An option, typed or a token of -o, is a record of its name and value.   *)
(* "empty" and "no_default_permissions" stand for the tokens that are      *)
(* refused by their spelling, "other" for those passed on as they are.     *)
(* A list of options is the number of times each is in it: the order of    *)
(* the list is left out, what it holds twice is not.  Kilo stands for 1024.*)
(*                                                                         *)
(* A definition whose comment begins "Faulty" is a wrong variant of the    *)
(* one after it; no specification uses it.                                 *)
(***************************************************************************)
EXTENDS Integers, Sequences, FiniteSetsExt

CONSTANTS Label,          \* values of fsname and subtype
          MaxTokens,      \* bound on tokens of -o
          MaxDigits,      \* bound on the number typed before K, M or G
          Kilo,           \* 1024
          ChunkSize,      \* CHUNK_SIZE, also the smallest buffer
          MaxUsize,       \* usize::MAX
          DefaultBuffer   \* DEFAULT_WRITE_BUFFER

ASSUME MountOptionsAssumption ==
  /\ {MaxTokens, MaxDigits} \subseteq Nat
  /\ {Kilo, ChunkSize, MaxUsize, DefaultBuffer} \subseteq Nat \ {0}
  /\ ChunkSize <= DefaultBuffer /\ DefaultBuffer <= MaxUsize

VARIABLES flags,   \* --allow-other, --allow-root, --auto-unmount as given
          extra,   \* tokens of -o, in order
          size,    \* --write-buffer: [digits, shift]; shift -1 when it is not given
          stage,   \* "typing", "parsed", "validated", "opened", "mounted", "refused"
          options, \* the options for the mount, as counts
          slots,   \* max_slots of the chunk arena
          db,      \* "untouched" or "opened"
          hint     \* the error tells about user_allow_other

vars == <<flags, extra, size, stage, options, slots, db, hint>>

Opt(name)      == [name |-> name, value |-> ""]
Valued(name)   == {[name |-> name, value |-> v] : v \in Label \cup {""}}
Flags          == {"allow_other", "allow_root", "auto_unmount"}
Tokens         == {Opt(n) : n \in Flags \cup {"ro", "default_permissions", "empty",
                                              "no_default_permissions", "other"}}
                  \cup Valued("fsname") \cup Valued("subtype")
DbfsName       == [name |-> "fsname", value |-> "dbfs"]
Option         == Tokens \cup {DbfsName}
NoOptions      == [o \in Option |-> 0]
Has(opts, o)   == opts[o] > 0
Push(opts, o)  == [opts EXCEPT ![o] = @ + 1]

Init ==
  /\ flags \in SUBSET Flags
  /\ extra = <<>>
  /\ size \in [digits : 0 .. MaxDigits, shift : 0 .. 3] \cup {[digits |-> 0, shift |-> -1]}
  /\ stage = "typing"
  /\ options = NoOptions
  /\ slots = 0
  /\ db = "untouched"
  /\ hint = FALSE

\* The user adds an option.
Type(token) ==
  /\ stage = "typing"
  /\ Len(extra) < MaxTokens
  /\ extra' = Append(extra, token)
  /\ UNCHANGED <<flags, size, stage, options, slots, db, hint>>

------------------------------------------------------------------------------

\* The suffix: none, K, M or G.
Power(k) == CASE k = 0 -> 1
              [] k = 1 -> Kilo
              [] k = 2 -> Kilo * Kilo
              [] k = 3 -> Kilo * Kilo * Kilo

\* Faulty: the product wraps.
BytesWrapped(s) == (s.digits * Power(s.shift)) % (MaxUsize + 1)

\* parse_size: 0 for a size that is refused.
Bytes(s) ==
  LET bytes == s.digits * Power(s.shift)
  IN  IF bytes > MaxUsize \/ bytes < ChunkSize THEN 0 ELSE bytes

\* The command line is parsed: conflicting flags and bad sizes are refused.
Parse ==
  /\ stage = "typing"
  /\ stage' = IF \/ {"allow_other", "allow_root"} \subseteq flags
                 \/ size.shift >= 0 /\ Bytes(size) = 0
              THEN "refused" ELSE "parsed"
  /\ UNCHANGED <<flags, extra, size, options, slots, db, hint>>

------------------------------------------------------------------------------
(* mount_options_for *)

\* parse_option refuses these.
BadToken(t) ==
  \/ t.name \in {"empty", "no_default_permissions"}
  \/ t.name \in {"fsname", "subtype"} /\ t.value = ""

\* mount_options
MountOptionsDefault == Push(Push(NoOptions, DbfsName), Opt("default_permissions"))

\* A name replaces the one before; any other option is there once.
WithOption(opts, o) ==
  IF o.name \in {"fsname", "subtype"}
  THEN Push([e \in Option |-> IF e.name = o.name THEN 0 ELSE opts[e]], o)
  ELSE IF Has(opts, o) THEN opts ELSE Push(opts, o)

\* The flags come first ...
WithFlag(opts, name) == IF name \in flags THEN WithOption(opts, Opt(name)) ELSE opts
WithFlags ==
  WithFlag(WithFlag(WithFlag(MountOptionsDefault, "allow_other"), "allow_root"), "auto_unmount")

\* ... then the tokens of -o in order.
AllOptions ==
  LET upto[k \in 0 .. Len(extra)] ==
        IF k = 0 THEN WithFlags ELSE WithOption(upto[k - 1], extra[k])
  IN  upto[Len(extra)]

\* Faulty: looks at the flags, not at -o.
ConflictOfFlags(opts) ==
  \/ {"allow_other", "allow_root"} \subseteq flags
  \/ "auto_unmount" \in flags /\ flags \cap {"allow_other", "allow_root"} = {}

Conflict(opts) ==
  LET other == Has(opts, Opt("allow_other"))
      root  == Has(opts, Opt("allow_root"))
  IN  \/ other /\ root
      \/ Has(opts, Opt("auto_unmount")) /\ ~(other \/ root)

\* run_with_mounter: validate first.
Validate ==
  /\ stage = "parsed"
  /\ IF (\E k \in DOMAIN extra : BadToken(extra[k])) \/ Conflict(AllOptions)
     THEN stage' = "refused" /\ UNCHANGED options
     ELSE stage' = "validated" /\ options' = AllOptions
  /\ UNCHANGED <<flags, extra, size, slots, db, hint>>

\* Db::open, which creates the file, may fail; Dbfs::with_write_buffer.
OpenDb ==
  /\ stage = "validated"
  /\ db' = "opened"
  /\ stage' \in {"opened", "refused"}
  /\ LET budget == IF size.shift < 0 THEN DefaultBuffer ELSE Bytes(size)
     IN  slots' = Max({budget \div ChunkSize, 1})
  /\ UNCHANGED <<flags, extra, size, options, hint>>

\* Session::new succeeds, or fails: denied or otherwise, to root or another user.
Mount ==
  /\ stage = "opened"
  /\ \/ stage' = "mounted" /\ UNCHANGED hint
     \/ \E root, denied \in BOOLEAN :
          /\ stage' = "refused"
          /\ hint' = (~root /\ denied /\ Has(options, Opt("allow_other")))
  /\ UNCHANGED <<flags, extra, size, options, slots, db>>

Next ==
  \/ \E t \in Tokens : Type(t)
  \/ Parse \/ Validate \/ OpenDb \/ Mount

Spec == Init /\ [][Next]_vars

------------------------------------------------------------------------------
(* Properties *)

Asked(o) == o.name \in flags \/ \E k \in DOMAIN extra : extra[k] = o

\* "default_permissions cannot be removed": a mount leaves permission checks to the
\* kernel, whatever options come in whatever order (mount_options_for).
PermissionsChecked == stage = "mounted" => Has(options, Opt("default_permissions"))

\* Nobody gets access who was not asked for: others or root, by a flag or by -o, and
\* not both; automatic unmounting, which asks for others behind the scenes, only
\* when one of them was asked for (mount_options_for).
AccessAsAsked ==
  stage = "mounted" =>
    LET has(n) == Has(options, Opt(n))
    IN  /\ \A n \in Flags : has(n) <=> Asked(Opt(n))
        /\ ~(has("allow_other") /\ has("allow_root"))
        /\ has("auto_unmount") => has("allow_other") \/ has("allow_root")

\* The mount has one fsname and at most one subtype, the last one given; every
\* other token that was given; and nothing twice (mount_options_for).
Named(name) ==
  LET given == {k \in DOMAIN extra : extra[k].name = name}
  IN  IF given # {} THEN {extra[Max(given)]}
      ELSE IF name = "fsname" THEN {DbfsName} ELSE {}
TokensAsGiven ==
  stage = "mounted" =>
    /\ \A name \in {"fsname", "subtype"} :
         {o \in Option : o.name = name /\ Has(options, o)} = Named(name)
    /\ \A k \in DOMAIN extra : extra[k].name \notin {"fsname", "subtype"} => Has(options, extra[k])
    /\ \A o \in Option : options[o] <= 1

\* Options that are refused have not created or upgraded a database ("Validate
\* options before the database is opened or created", run_with_mounter).
ValidBeforeOpen ==
  db = "opened" => ~Conflict(AllOptions) /\ \A k \in DOMAIN extra : ~BadToken(extra[k])

\* The mount gets the options it was asked for, and only a valid command line
\* reaches the database.
OptionsAsAsked == PermissionsChecked /\ AccessAsAsked /\ TokensAsGiven /\ ValidBeforeOpen

\* The arena's limit is the memory asked for, rounded down to whole chunks, and
\* never zero slots, which would make every write fail; no size wraps to a smaller
\* one (parse_size, ChunkArena::new).
BudgetAsAsked ==
  slots > 0 =>
    LET asked == IF size.shift < 0 THEN DefaultBuffer ELSE size.digits * Power(size.shift)
    IN  slots * ChunkSize <= asked /\ asked < (slots + 1) * ChunkSize
==============================================================================
