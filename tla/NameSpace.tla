------------------------------ MODULE NameSpace ------------------------------
(***************************************************************************)
(* What the file-system calls promise of names: a tree of directories and  *)
(* files in which a call makes one name or removes one, with everything    *)
(* beneath it, and changes no other.  The promise is open as long as no    *)
(* call has given a file a second name.                                    *)
(***************************************************************************)
EXTENDS Sequences, SequencesExt, Functions, TLC

CONSTANT Path   \* sequences of names, not empty

VARIABLES
  names,   \* the paths that exist, each "dir" or "file"
  open

Init == names = <<>> /\ open = TRUE

Holds(p) == p = <<>> \/ (p \in DOMAIN names /\ names[p] = "dir")

Make(p, k) == /\ p \notin DOMAIN names
              /\ Holds(Front(p))
              /\ names' = names @@ (p :> k)
              /\ UNCHANGED open

Unmake(p) == /\ p \in DOMAIN names
             /\ names' = Restrict(names, {q \in DOMAIN names : ~IsPrefix(p, q)})
             /\ UNCHANGED open

Lapse == open' = FALSE

Next == /\ open
        /\ \/ \E p \in Path : Unmake(p) \/ \E k \in {"dir", "file"} : Make(p, k)
           \/ Lapse

Spec == Init /\ [][Next]_<<names, open>>
=============================================================================
