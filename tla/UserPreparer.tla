---------------------------- MODULE UserPreparer ----------------------------
(***************************************************************************)
(* The user.user preparer (src/unnamed/part_002): Preparer.Prepare, which  *)
(* validates the record and builds the User task, and the registration of *)
(* the kind at init.  A uint32 is kept with its width as a parameter:      *)
(* MaxUint is 2^Width - 1 (math.MaxUint32 for Width = 32), the value that  *)
(* chown and usermod read as "(uid_t)-1", no change.  fmt.Sprintf("%v") of *)
(* an integer is modelled by what it does: its decimal digits.             *)
(***************************************************************************)
EXTENDS Naturals, Sequences

CONSTANTS
    Width,      \* bit width of the uid and gid fields (*uint32)
    Unset       \* a nil *uint32

MaxUint == 2^Width - 1

StatePresent == "present"
StateAbsent  == "absent"

\* The kind name registered at init (line 108).
Kind == "user.user"

\* fmt.Sprintf("%v", n) for an unsigned n: the decimal digits of n, most
\* significant first.
RECURSIVE Decimal(_)
Decimal(n) == IF n < 10 THEN <<n>> ELSE Decimal(n \div 10) \o <<n % 10>>

(***************************************************************************)
(* The records Prepare can be called on: the loader has already enforced   *)
(* the struct tags (username required, gid and groupname mutually          *)
(* exclusive, state one of present and absent or left empty).  Name and    *)
(* NewUsername are copied unchanged into the task and are left out.        *)
(***************************************************************************)
Preparers(Uids, HomeDirs) ==
    {p \in [Username : {"u"}, UID : Uids, GroupName : {"", "g"}, GID : Uids,
            HomeDir : HomeDirs, MoveDir : BOOLEAN,
            State : {"", StatePresent, StateAbsent}] :
        ~(p.GID # Unset /\ p.GroupName # "")}

\* The User task NewUser(new(System)) builds from p: UID and GID are the
\* empty string unless set.
NewUser(p) ==
    [Username  |-> p.Username,
     GroupName |-> p.GroupName,
     HomeDir   |-> p.HomeDir,
     MoveDir   |-> p.MoveDir,
     State     |-> p.State,
     UID       |-> IF p.UID # Unset THEN Decimal(p.UID) ELSE <<>>,
     GID       |-> IF p.GID # Unset THEN Decimal(p.GID) ELSE <<>>]

(***************************************************************************)
(* Prepare(p): the error of the first failing check, or the task.  Prepare *)
(* has a pointer receiver: the State default (line 84) is written into the *)
(* preparer itself, which is returned as prep.                             *)
(***************************************************************************)
Prepare(p) ==
    LET q == IF p.State = "" THEN [p EXCEPT !.State = StatePresent] ELSE p
    IN  CASE p.UID # Unset /\ p.UID = MaxUint -> [ok |-> FALSE, err |-> "uid", prep |-> p]
          [] p.GID # Unset /\ p.GID = MaxUint -> [ok |-> FALSE, err |-> "gid", prep |-> p]
          [] p.MoveDir /\ p.HomeDir = ""      -> [ok |-> FALSE, err |-> "home_dir", prep |-> p]
          [] OTHER -> [ok |-> TRUE, task |-> NewUser(q), prep |-> q]
====
