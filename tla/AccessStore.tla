---------------------------- MODULE AccessStore ----------------------------
(***************************************************************************)
(* What BuildHistogram promises of the store it fills (spec sections 4.4   *)
(* and 5), without trees, filters or resolution: the sites of the profile  *)
(* are taken in order; a site that is kept adds its accesses to the total  *)
(* of its callstack; the run ends with every site taken, or with an error  *)
(* when a kept site's callstack is already in the store (the only case in  *)
(* which TypeTreeStore::Insert can refuse a tree).                         *)
(*                                                                         *)
(* The sites are a variable that no step changes: each is [cs, kept, acc], *)
(* its callstack, whether it reaches the store, and its accesses.          *)
(***************************************************************************)
EXTENDS Naturals, Sequences

VARIABLES
    sites,      \* the profile as the store sees it
    totals,     \* callstack -> the accesses stored for it
    next,       \* the next site to take
    status      \* "running", "ok" or "error"

avars == <<sites, totals, next, status>>

Init ==
    /\ \A i \in DOMAIN sites : sites[i].kept \in BOOLEAN /\ sites[i].acc \in Nat
    /\ totals = << >>
    /\ next = 1
    /\ status = "running"

\* totals with a added to callstack cs, which it holds from then on.
AddTo(t, cs, a) ==
    [c \in DOMAIN t \cup {cs} |-> (IF c \in DOMAIN t THEN t[c] ELSE 0)
                                   + (IF c = cs THEN a ELSE 0)]

Taking == status = "running" /\ next <= Len(sites)

\* The next site is taken: kept, its accesses are stored; dropped, nothing.
Take ==
    /\ Taking
    /\ totals' = IF sites[next].kept
                 THEN AddTo(totals, sites[next].cs, sites[next].acc)
                 ELSE totals
    /\ next' = next + 1
    /\ UNCHANGED <<sites, status>>

\* The store refuses a kept site of a callstack it already holds.
Refuse ==
    /\ Taking
    /\ sites[next].kept
    /\ sites[next].cs \in DOMAIN totals
    /\ status' = "error"
    /\ UNCHANGED <<sites, totals, next>>

\* Every site has been taken.
Finish ==
    /\ status = "running"
    /\ next > Len(sites)
    /\ status' = "ok"
    /\ UNCHANGED <<sites, totals, next>>

Next == Take \/ Refuse \/ Finish

\* The loop keeps going until it returns.
Spec == Init /\ [][Next]_avars /\ WF_avars(Next)

====
