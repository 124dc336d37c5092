--------------------------- MODULE MCContextEntry ---------------------------
(***************************************************************************)
(* A small instance of ContextEntry: a file that changes under one entry,  *)
(* paths of every kind, two entries without files that are upset, two      *)
(* that are not, and a second entry that reopens work with a file.         *)
(***************************************************************************)
EXTENDS ContextEntry

CONSTANTS A, B

Files == [users |-> 1, calls |-> 1, reads |-> 3, upsets |-> 2, batch |-> 1, attempts |-> 2,
          models |-> {A}, files |-> Paths, kinds |-> {"file"}]
AllKinds == [users |-> 1, calls |-> 1, reads |-> 2, upsets |-> 1, batch |-> 1, attempts |-> 1,
             models |-> {A}, files |-> Paths, kinds |-> FileKinds]
Entries == [users |-> 2, calls |-> 1, reads |-> 0, upsets |-> 2, batch |-> 1, attempts |-> 1,
            models |-> {A}, files |-> {}, kinds |-> {"file"}]
Lifecycle == [users |-> 2, calls |-> 2, reads |-> 0, upsets |-> 0, batch |-> 1, attempts |-> 1,
              models |-> {A, B}, files |-> {}, kinds |-> {"file"}]
Reopening == [users |-> 2, calls |-> 2, reads |-> 2, upsets |-> 0, batch |-> 1, attempts |-> 1,
              models |-> {A}, files |-> Paths, kinds |-> {"file", "absent"}]

MixedWorkloads == {Files, AllKinds, Entries, Lifecycle, Reopening}
LifecycleOnly == {Lifecycle}

Interchangeable == Permutations(Parts)
=============================================================================
