---------------------------- MODULE MCRowIndexes ----------------------------
(***************************************************************************)
(* Small instances of RowIndexes: two sessions, keys and values 1..2, one  *)
(* index name, and the groups of clients the runs need.                    *)
(***************************************************************************)
EXTENDS RowIndexes

CONSTANTS s1, s2, a

MCValues == 1..3
MCRanks  == 1..2

Of(kinds) == {st \in Statements : st.kind \in kinds}

IndexDdl   == {"CreateIndex", "DropIndex"}
PointWrite == {"Insert", "Update", "Delete"}

Together(mysql, kinds) ==
  [mysql |-> mysql, sends |-> [s \in Sessions |-> Of(kinds)]]
Alone(mysql, kinds) ==
  [mysql |-> mysql, sends |-> [s \in Sessions |-> IF s = s1 THEN Of(kinds) ELSE {}]]

\* One MySQL session writes both rows while another writes the first of them
\* and indexes come and go (a DROP INDEX may be planned before the CREATE).
Builder == [mysql |-> TRUE,
            sends |-> [s \in Sessions |->
              IF s = s1 THEN Of(PointWrite \cup {"DropIndex"})
              ELSE {st \in Of(PointWrite) : st.key = 1} \cup Of(IndexDdl)]]

\* Beside these, two sessions that only insert and delete, and every statement
\* in one session of either mode.
MCClients ==
  {Builder,
   Together(TRUE, {"Insert", "Delete"}),
   Alone(TRUE, PointWrite \cup IndexDdl \cup InsertKinds \cup {"Truncate"}),
   Alone(FALSE, PointWrite \cup IndexDdl \cup {"Truncate"})}
=============================================================================
