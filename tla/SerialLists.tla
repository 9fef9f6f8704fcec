---------------------------- MODULE SerialLists ----------------------------
(***************************************************************************)
(* The lists of serial nodes, as reading the configuration leaves them     *)
(* (Server) and as the running daemon takes them over (SerialProxy).       *)
(***************************************************************************)
EXTENDS FiniteSets, SequencesExt

\* Of the nodes `all', `masters' are in masterList; every other one is in the list of one
\* master, its virtualOf; only such a one is a writer.
ProperLists(all, masters, masterList, virtualOf, virtualList, writers) ==
    /\ masters \subseteq all /\ IsFiniteSet(all)
    /\ masterList \in Seq(masters) /\ Range(masterList) = masters
    /\ virtualOf \in [all \ masters -> masters]
    /\ virtualList \in [masters -> Seq(all \ masters)]
    /\ \A m \in masters : Range(virtualList[m]) = {v \in all \ masters : virtualOf[v] = m}
    /\ writers \subseteq all \ masters
=============================================================================
