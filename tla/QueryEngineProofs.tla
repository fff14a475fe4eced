------------------------- MODULE QueryEngineProofs -------------------------
(***************************************************************************)
(* Proofs about QueryEngine, for any clients, row keys and number of       *)
(* TRUNCATEs and queries.  As long as none of the races that QueryEngine   *)
(* records in `raced' has happened, the state is Consistent:               *)
(*                                                                         *)
(*   Types       what each statement carries, and at which place of the    *)
(*               code it can be;                                           *)
(*   Told        acknowledged rows nobody removes are in the row family of *)
(*               the current epoch, rows whose removal was acknowledged    *)
(*               are in nothing a new or a cached provider reads, and an   *)
(*               epoch that has not begun is empty;                        *)
(*   Each        what each statement in work knows of the store is still   *)
(*               true: its rows, its epoch, its scan, what its query must  *)
(*               and may answer;                                           *)
(*   Pairs       two statements in work have different rows;               *)
(*   StaleCache  a provider of an old epoch stays cached only while the    *)
(*               TRUNCATE that ended the epoch has yet to invalidate it;   *)
(*   Settled     the chunk and the statistics are those of the rows, or a  *)
(*               refresh of the epoch is on its way.                       *)
(*                                                                         *)
(* QueriesSeeTheTable needs all but the last; ChunksMatchRows is the last  *)
(* one when every client is at its prompt.                                 *)
(***************************************************************************)
EXTENDS QueryEngine, TLAPS

\* The places of a refresh, of a query that reads, and of TRUNCATE's cleanup.

Rewriting == {"drop meta", "drop columns", "drop stats", "put"}
Refresh == {"scan"} \cup Rewriting
Reading == {"rows", "meta", "columns"}
Cleaning == {"old meta", "old columns", "old stats"}

\* Where each statement can be.
Stages(stmt) ==
  CASE stmt = "none" -> {"idle"}
    [] stmt = "insert" -> {"row", "store"} \cup Refresh
    [] stmt = "delete" -> {"row"} \cup Refresh
    [] stmt = "analyze" -> {"invalidate"} \cup Refresh
    [] stmt = "truncate" -> {"bump", "invalidate"} \cup Cleaning
    [] stmt = "query" -> {"provider", "build", "cache", "result"} \cup Reading

Rows == SUBSET RowKeys
Planned == Epochs \cup {0}
Stmts == {"none", "insert", "delete", "analyze", "truncate", "query"}
Places == {"idle", "row", "store", "invalidate", "bump", "provider", "build", "cache",
            "result"}
            \cup Refresh \cup Reading \cup Cleaning
Sessions == [at : Places, stmt : Stmts,
             epoch : Planned, keys : Rows, settled : Rows, scanned : Rows,
             must : Rows, may : Rows]
Chunks == Rows \cup {None}

Types ==
  /\ epoch \in Epochs
  /\ v2Rows \in [Epochs -> Rows]
  /\ chunkMeta \in [Epochs -> Chunks] /\ chunkCols \in [Epochs -> Chunks]
  /\ stats \in [Epochs -> Chunks]
  /\ cached \in Epochs \cup {None}
  /\ client \in [Clients -> Sessions]
  /\ truth \in [begun : Rows, acked : Rows, condemned : Rows, gone : Rows]
  /\ \A c \in Clients : client[c].at \in Stages(client[c].stmt)
  /\ \A c \in Clients : client[c].at \notin {"idle", "build"} => client[c].epoch \in Epochs

\* The rows some reader of epoch e may find: of the row family or of the chunk.
InChunk(e) == IF chunkCols[e] = None THEN {} ELSE chunkCols[e]
Stored(e) == v2Rows[e] \cup InChunk(e)

\* What clients were told of rows, against what the epochs hold.
Told ==
  /\ truth.gone \subseteq truth.acked \cap truth.condemned
  /\ truth.acked \cup truth.condemned \subseteq truth.begun
  /\ \A e \in Epochs :
       /\ Stored(e) \subseteq truth.begun
       /\ e < epoch => Stored(e) \subseteq truth.condemned
       /\ e > epoch => /\ v2Rows[e] = {} /\ chunkMeta[e] = None
                       /\ chunkCols[e] = None /\ stats[e] = None
  /\ Surely \subseteq v2Rows[epoch]
  /\ Stored(epoch) \cap truth.gone = {}
  /\ cached # None => cached <= epoch /\ Stored(cached) \cap truth.gone = {}

\* A row is its INSERT's alone until it is acknowledged.
InsertOK(s) ==
  s.stmt = "insert" =>
    /\ s.epoch = epoch
    /\ s.keys \subseteq truth.begun \ truth.acked
    /\ s.at = "row" => \A e \in Epochs : s.keys \cap Stored(e) = {}
    /\ s.at # "row" => s.keys \subseteq v2Rows[epoch] \cup truth.condemned

\* A row of DELETE is condemned and not yet gone, and its delete was the last write.
DeleteOK(s) ==
  s.stmt = "delete" =>
    /\ s.epoch = epoch
    /\ s.keys \subseteq truth.condemned \ truth.gone
    /\ s.settled \in {{}, s.keys}
    /\ s.settled \subseteq truth.acked
    /\ \A e \in Epochs : e < epoch => s.keys \cap Stored(e) = {}
    /\ s.at = "row" => s.settled \subseteq v2Rows[epoch]
    /\ s.at # "row" => s.keys \cap v2Rows[epoch] = {}

\* The rows TRUNCATE found acknowledged are in no epoch after the one it ends.
TruncateOK(s) ==
  s.stmt = "truncate" =>
    /\ s.settled \subseteq truth.acked \cap truth.condemned
    /\ s.epoch <= epoch /\ (s.at # "bump" => s.epoch < epoch)
    /\ \A e \in Epochs : e > s.epoch => s.settled \cap Stored(e) = {}
    /\ s.at \in Cleaning /\ cached # None => s.epoch < cached
    /\ s.at = "invalidate" => truth.acked \subseteq truth.condemned

\* The scan of a refresh is still the row family, and what it dropped stays dropped.
RefreshOK(s) ==
  LET e == s.epoch
  IN /\ s.stmt = "analyze" => e <= epoch
     /\ s.at \in Rewriting => s.scanned = v2Rows[e]
     /\ s.at \in {"drop columns", "drop stats", "put"} /\ v2Rows[e] = {} =>
          chunkMeta[e] = None
     /\ s.at \in {"drop stats", "put"} /\ v2Rows[e] = {} => chunkCols[e] = None

\* A query's reader finds all it must answer and nothing it may not.
QueryOK(s) ==
  s.stmt = "query" =>
    /\ s.must \subseteq Surely /\ Possibly \subseteq s.may
    /\ s.at \in Reading => /\ Stored(s.epoch) \subseteq s.may /\ s.epoch <= epoch
                           /\ s.epoch # epoch => s.must = {}
    /\ s.at \in {"meta", "columns"} => s.must = {}
    /\ s.at = "result" => s.must \subseteq s.scanned /\ s.scanned \subseteq s.may

\* Two statements at once.
Apart(s, t) ==
  /\ s.stmt = "insert" /\ t.stmt = "insert" => s.keys \cap t.keys = {}
  /\ s.stmt = "delete" /\ t.stmt = "delete" => s.keys \cap t.keys = {}
  /\ s.stmt = "insert" /\ t.stmt = "delete" /\ s.at = "row" /\ t.at # "row" =>
       s.keys \cap t.keys = {}
  /\ s.stmt = "delete" /\ t.stmt = "truncate" /\ t.at # "bump" => s.keys \cap t.settled = {}
  /\ s.stmt = "truncate" /\ s.at = "invalidate" =>
       /\ t.stmt = "insert" => t.at = "row"

Each == \A c \in Clients :
          /\ InsertOK(client[c]) /\ DeleteOK(client[c]) /\ TruncateOK(client[c])
          /\ RefreshOK(client[c]) /\ QueryOK(client[c])
Pairs == \A c, d \in Clients : c # d => Apart(client[c], client[d])

Invalidating(s) == s.stmt = "truncate" /\ s.at = "invalidate"
StaleCache == cached # None /\ cached # epoch => \E x \in Clients : Invalidating(client[x])

Pending(s) == s.epoch = epoch /\ s.at \in Refresh
Matching ==
  LET rows == v2Rows[epoch]
  IN /\ chunkMeta[epoch] = (IF rows = {} THEN None ELSE rows)
     /\ chunkCols[epoch] = chunkMeta[epoch]
     /\ stats[epoch] \in {rows, None} /\ (rows # {} => stats[epoch] = rows)
Settled == (\E x \in Clients : Pending(client[x])) \/ Matching

Consistent == Types /\ Told /\ Each /\ Pairs /\ StaleCache /\ Settled

\* The inductive invariant.
Inv == ~raced => Consistent

Fits(s) == InsertOK(s) /\ DeleteOK(s) /\ TruncateOK(s) /\ RefreshOK(s) /\ QueryOK(s)
Staged(s) ==
  /\ s.at \in Stages(s.stmt)
  /\ (s.at \notin {"idle", "build"} => s.epoch \in Epochs)
-----------------------------------------------------------------------------
\* Epochs are numbers.
LEMMA EpochNumbers == Epochs \subseteq Nat
  BY TruncatesAssumption DEF Epochs

LEMMA EqLeq == \A m \in Nat : m <= m
  OBVIOUS

\* A client at its prompt.
LEMMA QuietFacts ==
  /\ Quiet \in Sessions /\ Staged(Quiet)
  /\ Quiet.stmt = "none" /\ Quiet.at = "idle"
<1>1. Quiet \in Sessions
  <2>1. {} \in Rows /\ 0 \in Planned /\ "none" \in Stmts /\ "idle" \in Places
    BY DEF Rows, Planned, Stmts, Places
  <2> QED
    BY <2>1 DEF Quiet, Sessions
<1>2. Quiet.stmt = "none" /\ Quiet.at = "idle"
  BY DEF Quiet
<1>3. "idle" \in Stages("none")
  BY DEF Stages
<1> QED
  BY <1>1, <1>2, <1>3 DEF Staged

\* Goto moves one client on and leaves the rest of its statement alone.
LEMMA GotoFacts ==
  ASSUME Types, NEW c \in Clients, NEW a \in Places, Goto(c, a)
  PROVE  \E s \in Sessions :
           /\ client' = [client EXCEPT ![c] = s]
           /\ s.at = a /\ s.stmt = client[c].stmt /\ s.epoch = client[c].epoch
           /\ s.keys = client[c].keys /\ s.settled = client[c].settled
           /\ s.scanned = client[c].scanned /\ s.must = client[c].must
           /\ s.may = client[c].may
<1> DEFINE s == [client[c] EXCEPT !.at = a]
<1>1. client[c] \in Sessions
  BY DEF Types
<1>2. s \in Sessions
  BY <1>1 DEF Sessions
<1>3. client' = [client EXCEPT ![c] = s]
  BY DEF Goto
<1> QED
  BY <1>1, <1>2, <1>3 DEF Sessions

\* A step that changes one session and nothing shared.
LEMMA LocalStep ==
  ASSUME Consistent, NEW c \in Clients, NEW s \in Sessions,
         UNCHANGED <<storeVars, cached, truth>>,
         client' = [client EXCEPT ![c] = s],
         Staged(s), Fits(s),
         \A d \in Clients : d # c => Apart(s, client[d]) /\ Apart(client[d], s),
         Invalidating(client[c]) => Invalidating(s),
         Pending(client[c]) => Pending(s) \/ Matching
  PROVE  Consistent'
<1> USE DEF storeVars
<1>0. /\ Types /\ Told /\ Each /\ Pairs /\ StaleCache /\ Settled
      /\ client \in [Clients -> Sessions]
  BY DEF Consistent, Types
<1>1. /\ client'[c] = s
      /\ \A x \in Clients : x # c => client'[x] = client[x]
  BY <1>0
<1>2. Types'
  <2>1. client' \in [Clients -> Sessions]
    BY <1>0
  <2>2. \A x \in Clients : Staged(client[x])
    BY <1>0 DEF Types, Staged
  <2>3. \A x \in Clients : Staged(client'[x])
    BY <1>1, <2>2
  <2>4. UNCHANGED <<epoch, v2Rows, chunkMeta, chunkCols, stats, cached, truth>>
    OBVIOUS
  <2> QED
    BY <1>0, <2>1, <2>3, <2>4 DEF Types, Staged
<1>3. Told'
  BY <1>0 DEF Told, Stored, InChunk, Surely
<1>4. Each'
  <2> SUFFICES ASSUME NEW x \in Clients PROVE Fits(client[x])'
    BY DEF Each, Fits
  <2>1. Fits(client'[x])
    BY <1>0, <1>1 DEF Each, Fits
  <2>2. InsertOK(client[x])'
    BY <2>1 DEF Fits, InsertOK, Stored, InChunk
  <2>3. DeleteOK(client[x])'
    BY <2>1 DEF Fits, DeleteOK, Stored, InChunk
  <2>4. TruncateOK(client[x])'
    BY <2>1 DEF Fits, TruncateOK, Stored, InChunk
  <2>5. RefreshOK(client[x])'
    BY <2>1 DEF Fits, RefreshOK
  <2>6. QueryOK(client[x])'
    BY <2>1 DEF Fits, QueryOK, Stored, InChunk, Surely, Possibly
  <2> QED
    BY <2>2, <2>3, <2>4, <2>5, <2>6 DEF Fits
<1>5. Pairs'
  <2>1. \A x, y \in Clients : x # y => Apart(client'[x], client'[y])
    BY <1>0, <1>1 DEF Pairs
  <2> QED
    BY <2>1 DEF Pairs, Apart
<1>6. StaleCache'
  BY <1>0, <1>1 DEF StaleCache, Invalidating
<1>7. Settled'
  BY <1>0, <1>1 DEF Settled, Pending, Matching
<1> QED
  BY <1>2, <1>3, <1>4, <1>5, <1>6, <1>7 DEF Consistent

\* Where a statement can be, as sets.
LEMMA StageSets ==
  /\ Stages("none") = {"idle"}
  /\ Stages("insert") = {"row", "store"} \cup Refresh
  /\ Stages("delete") = {"row"} \cup Refresh
  /\ Stages("analyze") = {"invalidate"} \cup Refresh
  /\ Stages("truncate") = {"bump", "invalidate"} \cup Cleaning
  /\ Stages("query") = {"provider", "build", "cache", "result"} \cup Reading
  BY DEF Stages

\* The new session of Start, and what it does to the others.
Begun(s, c, stmt, at, keys) ==
  /\ client[c].at = "idle" /\ client[c].stmt = "none"
  /\ client' \in [Clients -> Sessions] /\ client'[c] = s
  /\ s.at = at /\ s.stmt = stmt /\ s.epoch = epoch /\ s.keys = keys
  /\ s.settled = keys \cap truth.acked /\ s.must = Surely /\ s.may = Possibly
  /\ \A x \in Clients : x # c =>
       /\ stmt = "insert" => client'[x] = [client[x] EXCEPT !.may = @ \cup keys]
       /\ stmt \in {"delete", "truncate"} =>
            client'[x] = [client[x] EXCEPT !.must = @ \ keys]
       /\ stmt \notin {"insert", "delete", "truncate"} => client'[x] = client[x]

\* Start puts the client at the first place of its statement.
LEMMA StartFacts ==
  ASSUME Types, NEW c \in Clients, NEW stmt \in Stmts, NEW at \in Places, NEW keys \in Rows,
         Start(c, stmt, at, keys)
  PROVE  \E s \in Sessions : Begun(s, c, stmt, at, keys)
<1> DEFINE s == [Quiet EXCEPT !.at = at, !.stmt = stmt, !.epoch = epoch, !.keys = keys,
                   !.settled = keys \cap truth.acked, !.must = Surely, !.may = Possibly]
<1>1. /\ s.at = at /\ s.stmt = stmt /\ s.epoch = epoch /\ s.keys = keys
      /\ s.settled = keys \cap truth.acked /\ s.must = Surely /\ s.may = Possibly
  BY DEF Quiet
<1>2. /\ {} \in Rows /\ keys \cap truth.acked \in Rows /\ Surely \in Rows
      /\ Possibly \in Rows
      /\ epoch \in Planned
  <2>1. truth.acked \in Rows /\ truth.begun \in Rows /\ epoch \in Epochs
    BY DEF Types
  <2> QED
    BY <2>1 DEF Surely, Possibly, Rows, Planned
<1>3. s \in Sessions
  <2>1. Quiet \in Sessions
    BY QuietFacts
  <2> QED
    BY <1>2, <2>1 DEF Sessions
<1>4. \A x \in Clients : client[x] \in Sessions
  BY DEF Types
<1>5. client[c].at = "idle"
  BY DEF Start
<1>6. client[c].stmt = "none"
  <2>1. client[c].at \in Stages(client[c].stmt) /\ client[c].stmt \in Stmts
    BY <1>4 DEF Types, Sessions
  <2> QED
    BY <1>5, <2>1, StageSets DEF Stmts, Refresh, Rewriting, Cleaning, Reading
<1>7. /\ client'[c] = s
      /\ \A x \in Clients : x # c =>
           /\ stmt = "insert" => client'[x] = [client[x] EXCEPT !.may = @ \cup keys]
           /\ stmt \in {"delete", "truncate"} =>
                client'[x] = [client[x] EXCEPT !.must = @ \ keys]
           /\ stmt \notin {"insert", "delete", "truncate"} => client'[x] = client[x]
  BY DEF Start
<1>8. client' \in [Clients -> Sessions]
  <2> HIDE DEF s
  <2>1. \A x \in Clients : client[x].may \cup keys \in Rows /\ client[x].must \ keys \in
          Rows
    BY <1>4 DEF Sessions, Rows
  <2>2. ASSUME NEW x \in Clients PROVE client'[x] \in Sessions
    <3>1. CASE x = c
      BY <1>3, <1>7, <3>1
    <3>2. CASE x # c /\ stmt = "insert"
      <4>1. client'[x] = [client[x] EXCEPT !.may = @ \cup keys]
        BY <1>7, <3>2
      <4> QED
        BY <1>4, <2>1, <4>1 DEF Sessions
    <3>3. CASE x # c /\ stmt \in {"delete", "truncate"}
      <4>1. client'[x] = [client[x] EXCEPT !.must = @ \ keys]
        BY <1>7, <3>3
      <4> QED
        BY <1>4, <2>1, <4>1 DEF Sessions
    <3>4. CASE x # c /\ stmt \notin {"insert", "delete", "truncate"}
      BY <1>4, <1>7, <3>4
    <3> QED
      BY <3>1, <3>2, <3>3, <3>4
  <2>3. client' = [x \in Clients |-> client'[x]]
    BY DEF Start
  <2> QED
    BY <2>2, <2>3
<1> HIDE DEF s
<1> QED
  BY <1>1, <1>3, <1>5, <1>6, <1>7, <1>8 DEF Begun

\* End acknowledges the statement.
LEMMA EndFacts ==
  ASSUME NEW c, End(c)
  PROVE  /\ client' = [client EXCEPT ![c] = Quiet]
         /\ client[c].stmt = "insert" =>
              truth' = [truth EXCEPT !.acked = @ \cup client[c].keys]
         /\ client[c].stmt \in {"delete", "truncate"} =>
              truth' = [truth EXCEPT !.gone = @ \cup client[c].settled]
         /\ client[c].stmt \notin {"insert", "delete", "truncate"} => truth' = truth
  BY DEF End

\* What the invariant says of one client.
LEMMA ClientFacts ==
  ASSUME Consistent, NEW c \in Clients
  PROVE  /\ client[c] \in Sessions /\ Staged(client[c]) /\ Fits(client[c])
         /\ client[c].stmt \in Stmts
         /\ \A d \in Clients : d # c => /\ Apart(client[c], client[d])
                                        /\ Apart(client[d], client[c])
<1>1. client[c] \in Sessions /\ Staged(client[c]) /\ Fits(client[c])
  BY DEF Consistent, Types, Each, Fits, Staged
<1>2. client[c].stmt \in Stmts
  BY <1>1 DEF Sessions
<1>3. \A d \in Clients : d # c => Apart(client[c], client[d]) /\ Apart(client[d], client[c])
  BY DEF Consistent, Pairs
<1> QED
  BY <1>1, <1>2, <1>3

\* What a session does in each place of the program.
LEMMA StmtAt ==
  ASSUME NEW s, s.stmt \in Stmts, Staged(s)
  PROVE  /\ s.at = "idle" => s.stmt = "none"
         /\ s.at = "row" => s.stmt \in {"insert", "delete"}
         /\ s.at = "store" => s.stmt = "insert"
         /\ s.at \in Refresh => s.stmt \in {"insert", "delete", "analyze"}
         /\ s.at = "invalidate" => s.stmt \in {"analyze", "truncate"}
         /\ s.at \in {"bump"} \cup Cleaning => s.stmt = "truncate"
         /\ s.at \in {"provider", "build", "cache", "result"} \cup Reading =>
              s.stmt = "query"
<1>1. CASE s.stmt = "none"
  BY <1>1, StageSets DEF Staged, Refresh, Rewriting, Cleaning, Reading
<1>2. CASE s.stmt = "insert"
  BY <1>2, StageSets DEF Staged, Refresh, Rewriting, Cleaning, Reading
<1>3. CASE s.stmt = "delete"
  BY <1>3, StageSets DEF Staged, Refresh, Rewriting, Cleaning, Reading
<1>4. CASE s.stmt = "analyze"
  BY <1>4, StageSets DEF Staged, Refresh, Rewriting, Cleaning, Reading
<1>5. CASE s.stmt = "truncate"
  BY <1>5, StageSets DEF Staged, Refresh, Rewriting, Cleaning, Reading
<1>6. CASE s.stmt = "query"
  BY <1>6, StageSets DEF Staged, Refresh, Rewriting, Cleaning, Reading
<1> QED
  BY <1>1, <1>2, <1>3, <1>4, <1>5, <1>6 DEF Stmts

\* Only the statement decides most of what is known of a session that does not refresh.
LEMMA QuietFits ==
  /\ Fits(Quiet) /\ Staged(Quiet) /\ ~Pending(Quiet) /\ ~Invalidating(Quiet)
  /\ \A t : Apart(Quiet, t) /\ Apart(t, Quiet)
<1>1. Fits(Quiet)
  BY QuietFacts DEF Fits, InsertOK, DeleteOK, TruncateOK, RefreshOK, QueryOK, Rewriting
<1>2. ~Pending(Quiet) /\ ~Invalidating(Quiet)
  BY QuietFacts DEF Pending, Invalidating, Refresh, Rewriting
<1>3. \A t : Apart(Quiet, t) /\ Apart(t, Quiet)
  BY QuietFacts DEF Apart
<1> QED
  BY <1>1, <1>2, <1>3, QuietFacts

LEMMA QuietFitsNext == Fits(Quiet)'
  BY QuietFacts DEF Quiet, Fits, InsertOK, DeleteOK, TruncateOK, RefreshOK, QueryOK,
     Rewriting

-----------------------------------------------------------------------------
\* A query that goes on, and an ANALYZE that begins.
LEMMA QueryStep ==
  ASSUME Consistent, NEW c \in Clients, NEW s \in Sessions,
         UNCHANGED <<storeVars, cached, truth>>,
         client' = [client EXCEPT ![c] = s],
         Staged(s), s.stmt = "query", QueryOK(s),
         client[c].stmt \in {"query", "none"}
  PROVE  Consistent'
<1>1. Fits(s)
  <2>1. s.at \notin Refresh
    BY StageSets DEF Staged, Refresh, Rewriting, Reading
  <2> QED
    BY <2>1 DEF Fits, InsertOK, DeleteOK, TruncateOK, RefreshOK, Refresh, Rewriting
<1>2. \A t : Apart(s, t) /\ Apart(t, s)
  BY DEF Apart
<1>3. ~Invalidating(client[c])
  BY DEF Invalidating
<1>4. ~Pending(client[c])
  BY ClientFacts, StmtAt DEF Pending
<1> QED
  BY <1>1, <1>2, <1>3, <1>4, LocalStep

\* A query begins: it must answer what is surely there now.
LEMMA BeginQueryOK ==
  ASSUME Consistent, NEW c \in Clients, BeginQuery(c)
  PROVE  Consistent'
<1>1. Types /\ {} \in Rows /\ "query" \in Stmts /\ "provider" \in Places
  BY DEF Consistent, Rows, Stmts, Places
<1>2. Start(c, "query", "provider", {}) /\ UNCHANGED <<storeVars, cached, truth>>
  BY DEF BeginQuery
<1>3. PICK s \in Sessions : Begun(s, c, "query", "provider", {})
  BY <1>1, <1>2, StartFacts
<1> USE DEF Begun
<1>4. client' = [client EXCEPT ![c] = s]
  BY <1>1, <1>3 DEF Types
<1>5. Staged(s)
  BY <1>1, <1>3, StageSets DEF Staged, Types
<1>6. QueryOK(s)
  BY <1>3 DEF QueryOK, Reading
<1> QED
  BY <1>2, <1>3, <1>4, <1>5, <1>6, QueryStep

\* A cached provider is of the current epoch or of one being truncated.
LEMMA FindProviderOK ==
  ASSUME Consistent, NEW c \in Clients, FindProvider(c)
  PROVE  Consistent'
<1> DEFINE old == client[c]
           s == [old EXCEPT !.at = IF cached # None THEN "rows" ELSE "build",
                            !.epoch = IF cached # None THEN cached ELSE 0]
<1>1. old.at = "provider" /\ UNCHANGED <<storeVars, cached, truth>>
  BY DEF FindProvider, At
<1>2. old \in Sessions /\ Staged(old) /\ Fits(old) /\ old.stmt = "query"
  BY <1>1, ClientFacts, StmtAt
<1>3. /\ s.at = IF cached # None THEN "rows" ELSE "build"
      /\ s.epoch = IF cached # None THEN cached ELSE 0
      /\ s.stmt = "query" /\ s.must = old.must /\ s.may = old.may
  BY <1>2 DEF Sessions
<1>4. s \in Sessions
  <2>1. /\ (IF cached # None THEN "rows" ELSE "build") \in Places
        /\ (IF cached # None THEN cached ELSE 0) \in Planned
    BY DEF Consistent, Types, Places, Planned, Reading
  <2> QED
    BY <1>2, <2>1 DEF Sessions
<1>5. client' = [client EXCEPT ![c] = s]
  BY DEF FindProvider
<1>6. Staged(s)
  BY <1>3, StageSets DEF Staged, Reading, Consistent, Types
<1>7. QueryOK(s)
  <2>1. s.must \subseteq Surely /\ Possibly \subseteq s.may
    BY <1>2, <1>3 DEF Fits, QueryOK
  <2>2. ASSUME cached # None
        PROVE  /\ Stored(cached) \subseteq s.may /\ cached <= epoch
               /\ (cached # epoch => s.must = {})
    <3>1. cached \in Epochs /\ cached <= epoch /\ Stored(cached) \cap truth.gone = {}
          /\ Stored(cached) \subseteq truth.begun
      BY <2>2 DEF Consistent, Types, Told
    <3>2. Stored(cached) \subseteq s.may
      BY <2>1, <3>1 DEF Possibly
    <3>3. ASSUME cached # epoch PROVE s.must = {}
      <4>1. PICK x \in Clients : Invalidating(client[x])
        BY <2>2, <3>3 DEF Consistent, StaleCache
      <4>2. truth.acked \subseteq truth.condemned
        BY <4>1, ClientFacts DEF Fits, TruncateOK, Invalidating
      <4> QED
        BY <2>1, <4>2 DEF Surely
    <3> QED
      BY <3>1, <3>2, <3>3
  <2> HIDE DEF s
  <2>3. CASE cached # None
    BY <1>3, <2>1, <2>2, <2>3 DEF QueryOK, Reading
  <2>4. CASE cached = None
    BY <1>3, <2>1, <2>4 DEF QueryOK, Reading
  <2> QED
    BY <2>3, <2>4
<1> HIDE DEF s
<1> QED
  BY <1>1, <1>2, <1>3, <1>4, <1>5, <1>6, <1>7, QueryStep

\* A provider is built with the epoch of the catalog.
LEMMA BuildProviderOK ==
  ASSUME Consistent, NEW c \in Clients, BuildProvider(c)
  PROVE  Consistent'
<1> DEFINE old == client[c]
           s == [old EXCEPT !.at = "cache", !.epoch = epoch]
<1>1. old.at = "build" /\ UNCHANGED <<storeVars, cached, truth>>
  BY DEF BuildProvider, At
<1>2. old \in Sessions /\ Staged(old) /\ Fits(old) /\ old.stmt = "query"
  BY <1>1, ClientFacts, StmtAt
<1>3. /\ s.at = "cache" /\ s.epoch = epoch
      /\ s.stmt = "query" /\ s.must = old.must /\ s.may = old.may
  BY <1>2 DEF Sessions
<1>4. s \in Sessions
  <2>1. "cache" \in Places /\ epoch \in Planned
    BY DEF Consistent, Types, Places, Planned
  <2> QED
    BY <1>2, <2>1 DEF Sessions
<1>5. client' = [client EXCEPT ![c] = s]
  BY DEF BuildProvider
<1> HIDE DEF s
<1>6. Staged(s)
  BY <1>3, StageSets DEF Staged, Consistent, Types
<1>7. QueryOK(s)
  BY <1>2, <1>3 DEF Fits, QueryOK, Reading
<1> QED
  BY <1>1, <1>2, <1>3, <1>4, <1>5, <1>6, <1>7, QueryStep

\* The sessions Result and Goto make of a query.
LEMMA ResultOK ==
  ASSUME Consistent, NEW c \in Clients, client[c].at \in Reading, NEW rows \in Rows,
         Result(c, rows), UNCHANGED <<storeVars, cached, truth>>,
         client[c].must \subseteq rows, rows \subseteq client[c].may
  PROVE  Consistent'
<1> DEFINE old == client[c]
           s == [old EXCEPT !.at = "result", !.scanned = rows]
<1>1. old \in Sessions /\ Staged(old) /\ Fits(old) /\ old.stmt = "query"
  BY ClientFacts, StmtAt
<1>2. /\ s.at = "result" /\ s.epoch = old.epoch /\ s.scanned = rows
      /\ s.stmt = "query" /\ s.must = old.must /\ s.may = old.may
  BY <1>1 DEF Sessions
<1>3. s \in Sessions
  <2>1. "result" \in Places
    BY DEF Places
  <2> QED
    BY <1>1, <2>1 DEF Sessions
<1>4. client' = [client EXCEPT ![c] = s]
  BY DEF Result
<1> HIDE DEF s
<1>5. Staged(s)
  BY <1>1, <1>2, StageSets DEF Staged, Reading
<1>6. QueryOK(s)
  BY <1>1, <1>2 DEF Fits, QueryOK, Reading
<1> QED
  BY <1>1, <1>2, <1>3, <1>4, <1>5, <1>6, QueryStep

\* A query that goes on reading.
LEMMA ReadOnOK ==
  ASSUME Consistent, NEW c \in Clients, client[c].at \in {"rows", "meta"},
         NEW a \in {"meta", "columns"}, Goto(c, a), UNCHANGED <<storeVars, cached, truth>>,
         client[c].must = {}
  PROVE  Consistent'
<1> DEFINE old == client[c]
<1>1. old \in Sessions /\ Staged(old) /\ Fits(old) /\ old.stmt = "query"
  BY ClientFacts, StmtAt DEF Reading
<1>2. Types /\ a \in Places
  BY DEF Consistent, Places, Reading
<1>3. PICK s \in Sessions :
           /\ client' = [client EXCEPT ![c] = s]
           /\ s.at = a /\ s.stmt = client[c].stmt /\ s.epoch = client[c].epoch
           /\ s.keys = client[c].keys /\ s.settled = client[c].settled
           /\ s.scanned = client[c].scanned /\ s.must = client[c].must
           /\ s.may = client[c].may
  BY <1>2, GotoFacts
<1>4. Staged(s)
  BY <1>1, <1>3, StageSets DEF Staged, Reading
<1>5. QueryOK(s)
  BY <1>1, <1>3 DEF Fits, QueryOK, Reading
<1> QED
  BY <1>1, <1>3, <1>4, <1>5, QueryStep

\* What a query may find under its epoch.
LEMMA ReadingFacts ==
  ASSUME Consistent, NEW c \in Clients, client[c].at \in Reading
  PROVE  /\ client[c].epoch \in Epochs /\ v2Rows[client[c].epoch] \in Rows
         /\ Stored(client[c].epoch) \subseteq client[c].may
         /\ client[c].must \subseteq v2Rows[client[c].epoch]
<1> DEFINE old == client[c]
<1>1. Staged(old) /\ Fits(old) /\ old.stmt = "query"
  BY ClientFacts, StmtAt
<1>2. old.epoch \in Epochs
  BY <1>1 DEF Staged, Reading
<1>3. v2Rows[old.epoch] \in Rows
  BY <1>2 DEF Consistent, Types
<1>4. /\ old.must \subseteq Surely /\ Stored(old.epoch) \subseteq old.may
      /\ old.epoch # epoch => old.must = {}
  BY <1>1 DEF Fits, QueryOK
<1>5. Surely \subseteq v2Rows[epoch]
  BY DEF Consistent, Told
<1>6. old.must \subseteq v2Rows[old.epoch]
  BY <1>4, <1>5
<1> QED
  BY <1>2, <1>3, <1>4, <1>6

\* The row family first: only when it is empty does the reader turn to the chunk.
LEMMA ScanRowsOK ==
  ASSUME Consistent, NEW c \in Clients, ScanRows(c)
  PROVE  Consistent'
<1> DEFINE rows == v2Rows[client[c].epoch]
<1>1. client[c].at = "rows" /\ UNCHANGED <<storeVars, cached, truth>>
  BY DEF ScanRows, At
<1>2. /\ rows \in Rows /\ client[c].must \subseteq rows /\ rows \subseteq client[c].may
  BY <1>1, ReadingFacts DEF Reading, Stored
<1>3. CASE rows # {}
  <2>1. Result(c, rows)
    BY <1>3 DEF ScanRows
  <2> QED
    BY <1>1, <1>2, <2>1, ResultOK DEF Reading
<1>4. CASE rows = {}
  <2>1. Goto(c, "meta")
    BY <1>4 DEF ScanRows
  <2> QED
    BY <1>1, <1>2, <1>4, <2>1, ReadOnOK
<1> QED
  BY <1>3, <1>4

\* The chunk metadata says whether there is a chunk to read.
LEMMA ScanChunkMetaOK ==
  ASSUME Consistent, NEW c \in Clients, ScanChunkMeta(c)
  PROVE  Consistent'
<1>1. client[c].at = "meta" /\ UNCHANGED <<storeVars, cached, truth>>
  BY DEF ScanChunkMeta, At
<1>2. client[c].must = {} /\ {} \in Rows
  BY <1>1, ClientFacts, StmtAt DEF Fits, QueryOK, Reading, Rows
<1>3. CASE chunkMeta[client[c].epoch] = None
  <2>1. Result(c, {})
    BY <1>3 DEF ScanChunkMeta
  <2> QED
    BY <1>1, <1>2, <2>1, ResultOK DEF Reading
<1>4. CASE chunkMeta[client[c].epoch] # None
  <2>1. Goto(c, "columns")
    BY <1>4 DEF ScanChunkMeta
  <2> QED
    BY <1>1, <1>2, <2>1, ReadOnOK
<1> QED
  BY <1>3, <1>4

\* A session goes back to its prompt.
LEMMA QueryEndOK ==
  ASSUME Consistent, NEW c \in Clients, client[c].stmt = "query",
         client' = [client EXCEPT ![c] = Quiet], UNCHANGED <<storeVars, cached, truth>>
  PROVE  Consistent'
<1>1. ~Invalidating(client[c])
  BY DEF Invalidating
<1>2. ~Pending(client[c])
  BY ClientFacts, StmtAt DEF Pending
<1> QED
  BY <1>1, <1>2, QuietFacts, QuietFits, LocalStep

\* The chunk holds no row that is gone.
LEMMA ReadColumnsOK ==
  ASSUME Consistent, NEW c \in Clients, ReadColumns(c)
  PROVE  Consistent'
<1> DEFINE columns == chunkCols[client[c].epoch]
<1>1. client[c].at = "columns" /\ UNCHANGED <<storeVars, cached, truth>>
  BY DEF ReadColumns, At
<1>2. client[c].stmt = "query" /\ client[c].must = {}
  BY <1>1, ClientFacts, StmtAt DEF Fits, QueryOK, Reading
<1>3. CASE columns = None
  <2>1. client' = [client EXCEPT ![c] = Quiet]
    BY <1>3 DEF ReadColumns
  <2> QED
    BY <1>1, <1>2, <2>1, QueryEndOK
<1>4. CASE columns # None
  <2>1. Result(c, columns)
    BY <1>4 DEF ReadColumns
  <2>2. client[c].epoch \in Epochs /\ Stored(client[c].epoch) \subseteq client[c].may
    BY <1>1, ReadingFacts DEF Reading
  <2>3. columns \in Rows
    BY <1>4, <2>2 DEF Consistent, Types, Chunks
  <2>4. columns \subseteq client[c].may
    BY <1>4, <2>2 DEF Stored, InChunk
  <2> QED
    BY <1>1, <1>2, <2>1, <2>3, <2>4, ResultOK DEF Reading
<1> QED
  BY <1>3, <1>4

\* The client gets its answer.
LEMMA RespondOK ==
  ASSUME Consistent, NEW c \in Clients, Respond(c)
  PROVE  Consistent'
<1>1. client[c].at = "result" /\ End(c) /\ UNCHANGED <<storeVars, cached>>
  BY DEF Respond, At
<1>2. client[c].stmt = "query"
  BY <1>1, ClientFacts, StmtAt
<1>3. client' = [client EXCEPT ![c] = Quiet] /\ UNCHANGED truth
  BY <1>1, <1>2, EndFacts
<1> QED
  BY <1>1, <1>2, <1>3, QueryEndOK

\* ANALYZE begins a refresh of the epoch it planned with.
LEMMA BeginAnalyzeOK ==
  ASSUME Consistent, NEW c \in Clients, BeginAnalyze(c)
  PROVE  Consistent'
<1>1. Types /\ {} \in Rows /\ "analyze" \in Stmts /\ "scan" \in Places
  BY DEF Consistent, Rows, Stmts, Places, Refresh
<1>2. Start(c, "analyze", "scan", {}) /\ UNCHANGED <<storeVars, cached, truth>>
  BY DEF BeginAnalyze
<1>3. PICK s \in Sessions : Begun(s, c, "analyze", "scan", {})
  BY <1>1, <1>2, StartFacts
<1> USE DEF Begun
<1>4. client' = [client EXCEPT ![c] = s]
  BY <1>1, <1>3 DEF Types
<1>5. Staged(s)
  BY <1>1, <1>3, StageSets DEF Staged, Types, Refresh
<1>6. Fits(s)
  BY <1>1, <1>3 DEF Fits, InsertOK, DeleteOK, TruncateOK, RefreshOK, QueryOK, Rewriting, Types,
     Epochs
<1>7. \A t : Apart(s, t) /\ Apart(t, s)
  BY <1>3 DEF Apart
<1>8. ~Invalidating(client[c]) /\ ~Pending(client[c])
  BY <1>3 DEF Invalidating, Pending, Refresh, Rewriting
<1> QED
  BY <1>2, <1>4, <1>5, <1>6, <1>7, <1>8, LocalStep

\* The refresh scans the row family; without rows it has nothing to put.
LEMMA RefreshScanOK ==
  ASSUME Consistent, NEW c \in Clients, RefreshScan(c)
  PROVE  Consistent'
<1> DEFINE old == client[c]
           s == [old EXCEPT !.at = "drop meta", !.scanned = v2Rows[old.epoch]]
<1>1. old.at = "scan" /\ UNCHANGED <<storeVars, cached, truth>>
  BY DEF RefreshScan, At
<1>2. /\ old \in Sessions /\ Staged(old) /\ Fits(old)
      /\ old.stmt \in {"insert", "delete", "analyze"}
  BY <1>1, ClientFacts, StmtAt DEF Refresh
<1>3. old.epoch \in Epochs /\ v2Rows[old.epoch] \in Rows
  BY <1>1, <1>2 DEF Staged, Consistent, Types
<1>4. /\ s.at = "drop meta" /\ s.scanned = v2Rows[s.epoch] /\ s.epoch = old.epoch
      /\ s.stmt = old.stmt /\ s.keys = old.keys /\ s.settled = old.settled
      /\ s.must = old.must /\ s.may = old.may
  BY <1>2 DEF Sessions
<1>5. s \in Sessions
  <2>1. "drop meta" \in Places
    BY DEF Places, Refresh, Rewriting
  <2> QED
    BY <1>2, <1>3, <2>1 DEF Sessions
<1>6. client' = [client EXCEPT ![c] = s]
  BY DEF RefreshScan
<1> HIDE DEF s
<1>7. Staged(s)
  BY <1>2, <1>3, <1>4, StageSets DEF Staged, Refresh, Rewriting
<1>8. Fits(s)
  BY <1>1, <1>2, <1>4 DEF Fits, InsertOK, DeleteOK, TruncateOK, RefreshOK, QueryOK
<1>9. \A d \in Clients : d # c => Apart(s, client[d]) /\ Apart(client[d], s)
  BY <1>1, <1>2, <1>4, ClientFacts DEF Apart
<1>10. ~Invalidating(client[c]) /\ (Pending(client[c]) => Pending(s))
  BY <1>1, <1>4 DEF Invalidating, Pending, Refresh, Rewriting
<1> QED
  BY <1>1, <1>5, <1>6, <1>7, <1>8, <1>9, <1>10, LocalStep

-----------------------------------------------------------------------------
\* Steps that touch the chunks of one epoch and end removals.
Exact(e) == IF v2Rows[e] = {} THEN None ELSE v2Rows[e]

ChunksOf(e) ==
  /\ UNCHANGED <<epoch, v2Rows, cached>>
  /\ chunkMeta' \in [Epochs -> Chunks] /\ chunkCols' \in [Epochs -> Chunks]
  /\ stats' \in [Epochs -> Chunks]
  /\ \A f \in Epochs : f # e => /\ chunkMeta'[f] = chunkMeta[f]
                                /\ chunkCols'[f] = chunkCols[f]
                                /\ stats'[f] = stats[f]
  /\ chunkMeta'[e] \in {None, chunkMeta[e], Exact(e)}
  /\ chunkCols'[e] \in {None, chunkCols[e], Exact(e)}

LEMMA LessStored ==
  ASSUME NEW e \in Epochs, ChunksOf(e)
  PROVE  \A f \in Epochs : Stored(f)' \subseteq Stored(f)
  BY DEF ChunksOf, Stored, InChunk, Exact

\* What such a step keeps: no reader finds a row it did not find before.
LEMMA WindDown ==
  ASSUME Consistent, NEW c \in Clients, NEW s \in Sessions, NEW e \in Epochs, e <= epoch,
         ChunksOf(e),
         NEW g \in Rows, truth' = [truth EXCEPT !.gone = @ \cup g],
         g \subseteq truth.acked \cap truth.condemned,
         Stored(epoch)' \cap g = {},
         cached # None => Stored(cached)' \cap g = {},
         \A x \in Clients : x # c /\ client[x].stmt = "delete" =>
           client[x].keys \cap g = {},
         client' = [client EXCEPT ![c] = s], Staged(s), Fits(s)',
         \A d \in Clients : d # c => Apart(s, client[d]) /\ Apart(client[d], s),
         ~Invalidating(client[c]),
         e = epoch \/ Pending(client[c]) => Pending(s) \/ Matching'
  PROVE  Consistent'
<1>0. /\ Types /\ Told /\ Each /\ Pairs /\ StaleCache /\ Settled
      /\ client \in [Clients -> Sessions]
  BY DEF Consistent, Types
<1>1. /\ client'[c] = s
      /\ \A x \in Clients : x # c => client'[x] = client[x]
  BY <1>0
<1>2. /\ UNCHANGED <<epoch, v2Rows, cached>>
      /\ chunkMeta' \in [Epochs -> Chunks] /\ chunkCols' \in [Epochs -> Chunks]
      /\ stats' \in [Epochs -> Chunks]
  BY DEF ChunksOf
<1>3. /\ truth' \in [begun : Rows, acked : Rows, condemned : Rows, gone : Rows]
      /\ truth'.begun = truth.begun /\ truth'.acked = truth.acked
      /\ truth'.condemned = truth.condemned /\ truth'.gone = truth.gone \cup g
  <2>1. truth \in [begun : Rows, acked : Rows, condemned : Rows, gone : Rows]
    BY <1>0 DEF Types
  <2>2. truth.gone \cup g \in Rows
    BY <2>1 DEF Rows
  <2> QED
    BY <2>1, <2>2
<1>4. \A f \in Epochs : Stored(f)' \subseteq Stored(f)
  BY LessStored
<1>5. Surely' = Surely /\ Possibly' \subseteq Possibly
  BY <1>3 DEF Surely, Possibly
<1>6. Types'
  <2>1. client' \in [Clients -> Sessions]
    BY <1>0
  <2>2. \A x \in Clients : Staged(client[x])
    BY <1>0 DEF Types, Staged
  <2>3. \A x \in Clients : Staged(client'[x])
    BY <1>1, <2>2
  <2> QED
    BY <1>0, <1>2, <1>3, <2>1, <2>3 DEF Types, Staged
<1>7. Told'
  <2>1. epoch \in Epochs /\ (cached # None => cached \in Epochs)
    BY <1>0 DEF Types
  <2>2. \A f \in Epochs : f > epoch => f # e
    BY <2>1 DEF Epochs
  <2>3. /\ truth'.gone \subseteq truth'.acked \cap truth'.condemned
        /\ truth'.acked \cup truth'.condemned \subseteq truth'.begun
    BY <1>0, <1>3 DEF Told
  <2>4. \A f \in Epochs :
       /\ Stored(f)' \subseteq truth'.begun
       /\ f < epoch => Stored(f)' \subseteq truth'.condemned
       /\ f > epoch => /\ v2Rows'[f] = {} /\ chunkMeta'[f] = None
                       /\ chunkCols'[f] = None /\ stats'[f] = None
    <3> SUFFICES ASSUME NEW f \in Epochs
                 PROVE  /\ Stored(f)' \subseteq truth'.begun
                        /\ f < epoch => Stored(f)' \subseteq truth'.condemned
                        /\ f > epoch => /\ v2Rows'[f] = {} /\ chunkMeta'[f] = None
                                        /\ chunkCols'[f] = None /\ stats'[f] = None
      OBVIOUS
    <3>1. /\ Stored(f)' \subseteq truth'.begun
          /\ (f < epoch => Stored(f)' \subseteq truth'.condemned)
      BY <1>0, <1>3, <1>4 DEF Told
    <3>2. f > epoch => f # e
      BY <2>2
    <3> QED
      BY <1>0, <1>2, <3>1, <3>2 DEF Told, ChunksOf
  <2>5. Surely' \subseteq v2Rows'[epoch]
    BY <1>0, <1>2, <1>5 DEF Told
  <2>6. Stored(epoch)' \cap truth'.gone = {}
    <3>1. Stored(epoch)' \subseteq Stored(epoch)
      <4>1. \A f \in Epochs : epoch = f => Stored(epoch)' = Stored(f)'
        BY <1>2
      <4> QED
        BY <1>2, <1>4, <2>1, <4>1
    <3> QED
      BY <1>0, <1>3, <3>1 DEF Told
  <2>7. cached # None => cached <= epoch /\ Stored(cached)' \cap truth'.gone = {}
    <3>1. cached # None => Stored(cached)' \subseteq Stored(cached)
      <4>1. \A f \in Epochs : cached = f => Stored(cached)' = Stored(f)'
        BY <1>2
      <4> QED
        BY <1>2, <1>4, <2>1, <4>1
    <3> QED
      BY <1>0, <1>3, <3>1 DEF Told
  <2> QED
    BY <1>2, <2>3, <2>4, <2>5, <2>6, <2>7 DEF Told
<1>8. Each'
  <2> SUFFICES ASSUME NEW x \in Clients PROVE Fits(client[x])'
    BY DEF Each, Fits
  <2>1. CASE x = c
    <3>1. client'[x] = s
      BY <1>1, <2>1
    <3>2. InsertOK(client[x])'
      BY <3>1 DEF Fits, InsertOK
    <3>3. DeleteOK(client[x])'
      BY <3>1 DEF Fits, DeleteOK
    <3>4. TruncateOK(client[x])'
      BY <3>1 DEF Fits, TruncateOK
    <3>5. RefreshOK(client[x])'
      BY <3>1 DEF Fits, RefreshOK
    <3>6. QueryOK(client[x])'
      BY <3>1 DEF Fits, QueryOK
    <3> QED
      BY <3>2, <3>3, <3>4, <3>5, <3>6 DEF Fits
  <2>2. CASE x # c
    <3>1. Fits(client[x]) /\ Staged(client[x]) /\ client'[x] = client[x]
      BY <1>0, <1>1, <2>2 DEF Each, Fits, Types, Staged
    <3>2. InsertOK(client[x])'
      BY <1>2, <1>3, <1>4, <3>1 DEF Fits, InsertOK
    <3>3. DeleteOK(client[x])'
      BY <1>2, <1>3, <1>4, <2>2, <3>1 DEF Fits, DeleteOK
    <3>4. TruncateOK(client[x])'
      BY <1>2, <1>3, <1>4, <3>1 DEF Fits, TruncateOK
    <3>5. RefreshOK(client[x])'
      <4>1. client[x].at \in Rewriting => client[x].epoch \in Epochs
        BY <3>1 DEF Staged, Rewriting
      <4> QED
        BY <1>2, <3>1, <4>1, ZenonT(30) DEF Fits, RefreshOK, ChunksOf, Exact, Rewriting
    <3>6. QueryOK(client[x])'
      <4>1. client[x].at \in Reading => client[x].epoch \in Epochs
        BY <3>1 DEF Staged, Reading
      <4>2. client[x].at \in Reading => Stored(client[x].epoch)' \subseteq
              Stored(client[x].epoch)
        <5>1. \A f \in Epochs : client[x].epoch = f =>
                Stored(client[x].epoch)' = Stored(f)' /\ Stored(client[x].epoch) = Stored(f)
          BY <3>1
        <5> QED
          BY <1>4, <4>1, <5>1
      <4> QED
        BY <1>2, <1>5, <3>1, <4>2 DEF Fits, QueryOK
    <3> QED
      BY <3>2, <3>3, <3>4, <3>5, <3>6 DEF Fits
  <2> QED
    BY <2>1, <2>2
<1>9. Pairs'
  <2>1. \A x, y \in Clients : x # y => Apart(client'[x], client'[y])
    BY <1>0, <1>1 DEF Pairs
  <2> QED
    BY <2>1 DEF Pairs, Apart
<1>10. StaleCache'
  BY <1>0, <1>1, <1>2 DEF StaleCache, Invalidating
<1>11. Settled'
  <2>1. CASE e = epoch \/ Pending(client[c])
    BY <1>1, <1>2, <2>1 DEF Settled, Pending
  <2>2. CASE e # epoch /\ ~Pending(client[c])
    <3>1. Matching => Matching'
      BY <1>0, <1>2, <2>2 DEF Matching, ChunksOf, Types
    <3>2. ASSUME NEW x \in Clients, Pending(client[x]) PROVE Settled'
      BY <1>1, <1>2, <2>2, <3>2 DEF Settled, Pending
    <3> QED
      BY <1>0, <3>1, <3>2 DEF Settled
  <2> QED
    BY <2>1, <2>2
<1> QED
  BY <1>6, <1>7, <1>8, <1>9, <1>10, <1>11 DEF Consistent

\* WindDown for a session that goes on, with the rows that are gone unchanged.
LEMMA WindOn ==
  ASSUME Consistent, NEW c \in Clients, NEW s \in Sessions, NEW e \in Epochs, e <= epoch,
         ChunksOf(e),
         UNCHANGED truth, client' = [client EXCEPT ![c] = s], Staged(s), Fits(s)',
         \A d \in Clients : d # c => Apart(s, client[d]) /\ Apart(client[d], s),
         ~Invalidating(client[c]),
         e = epoch \/ Pending(client[c]) => Pending(s) \/ Matching'
  PROVE  Consistent'
<1>1. {} \in Rows /\ truth' = [truth EXCEPT !.gone = @ \cup {}]
  <2>1. truth \in [begun : Rows, acked : Rows, condemned : Rows, gone : Rows]
    BY DEF Consistent, Types
  <2> QED
    BY <2>1 DEF Rows
<1>2. /\ {} \subseteq truth.acked \cap truth.condemned
      /\ Stored(epoch)' \cap {} = {} /\ Stored(cached)' \cap {} = {}
      /\ \A x \in Clients : client[x].keys \cap {} = {}
  OBVIOUS
<1> QED
  BY <1>1, <1>2, WindDown

\* A step of a refresh that is not its last.
LEMMA RefreshGoesOn ==
  ASSUME Consistent, NEW c \in Clients, NEW a \in Places, Goto(c, a), UNCHANGED truth,
         ChunksOf(client[c].epoch),
         client[c].at \in Rewriting,
         a \in {"drop columns", "drop stats", "put", "store", "invalidate"},
         a = "store" => client[c].stmt = "insert",
         a = "invalidate" => client[c].stmt = "analyze",
         a \in {"drop columns", "drop stats", "put"} /\ v2Rows[client[c].epoch] = {} =>
           chunkMeta'[client[c].epoch] = None,
         a \in {"drop stats", "put"} /\ v2Rows[client[c].epoch] = {} =>
           chunkCols'[client[c].epoch] = None,
         a \in {"store", "invalidate"} /\ client[c].epoch = epoch => Matching'
  PROVE  Consistent'
<1> DEFINE old == client[c]
<1>1. /\ old \in Sessions /\ Staged(old) /\ Fits(old)
      /\ old.stmt \in {"insert", "delete", "analyze"}
  BY ClientFacts, StmtAt DEF Refresh
<1>2. Types /\ UNCHANGED <<epoch, v2Rows, cached>>
  BY DEF Consistent, ChunksOf
<1>3. PICK s \in Sessions :
           /\ client' = [client EXCEPT ![c] = s]
           /\ s.at = a /\ s.stmt = client[c].stmt /\ s.epoch = client[c].epoch
           /\ s.keys = client[c].keys /\ s.settled = client[c].settled
           /\ s.scanned = client[c].scanned /\ s.must = client[c].must
           /\ s.may = client[c].may
  BY <1>2, GotoFacts
<1>4. old.epoch \in Epochs /\ old.epoch <= epoch
  <2>1. old.epoch \in Epochs /\ epoch \in Epochs
    BY <1>1 DEF Staged, Rewriting, Consistent, Types
  <2>2. old.stmt = "analyze" => old.epoch <= epoch
    BY <1>1 DEF Fits, RefreshOK
  <2>3. old.stmt # "analyze" => old.epoch = epoch
    BY <1>1 DEF Fits, InsertOK, DeleteOK
  <2> QED
    <3>1. old.epoch \in Nat /\ epoch \in Nat
      BY <2>1, EpochNumbers
    <3>2. CASE old.stmt = "analyze"
      BY <2>1, <2>2, <3>2
    <3>3. CASE old.stmt # "analyze"
      BY <2>1, <2>3, <3>1, <3>3, EqLeq
    <3> QED
      BY <3>2, <3>3
<1>5. Staged(s)
  BY <1>1, <1>3, <1>4, StageSets DEF Staged, Refresh, Rewriting
<1>6. Fits(s)'
  <2>1. \A f \in Epochs : Stored(f)' \subseteq Stored(f)
    BY <1>4, LessStored
  <2>2. InsertOK(s)'
    BY <1>1, <1>2, <1>3 DEF Fits, InsertOK, Rewriting
  <2>3. DeleteOK(s)'
    BY <1>1, <1>2, <1>3, <2>1 DEF Fits, DeleteOK, Rewriting
  <2>4. RefreshOK(s)'
    BY <1>1, <1>2, <1>3 DEF Fits, RefreshOK, Rewriting
  <2>5. TruncateOK(s)' /\ QueryOK(s)'
    BY <1>1, <1>3 DEF TruncateOK, QueryOK
  <2> QED
    BY <2>2, <2>3, <2>4, <2>5 DEF Fits
<1>7. \A d \in Clients : d # c => Apart(s, client[d]) /\ Apart(client[d], s)
  BY <1>1, <1>3, ClientFacts DEF Apart, Rewriting
<1>8. ~Invalidating(old)
  BY <1>1 DEF Invalidating
<1>9. old.epoch = epoch \/ Pending(old) => Pending(s) \/ Matching'
  BY <1>3 DEF Pending, Refresh, Rewriting
<1> QED
  BY <1>2, <1>3, <1>4, <1>5, <1>6, <1>7, <1>8, <1>9, WindOn

\* A step of TRUNCATE's cleanup of the epoch it ended.
LEMMA CleaningGoesOn ==
  ASSUME Consistent, NEW c \in Clients, NEW a \in Places, Goto(c, a), UNCHANGED truth,
         ChunksOf(client[c].epoch), client[c].at \in Cleaning, a \in Cleaning
  PROVE  Consistent'
<1> DEFINE old == client[c]
<1>1. old \in Sessions /\ Staged(old) /\ Fits(old) /\ old.stmt = "truncate"
  BY ClientFacts, StmtAt
<1>2. Types /\ UNCHANGED <<epoch, v2Rows, cached>>
  BY DEF Consistent, ChunksOf
<1>3. PICK s \in Sessions :
           /\ client' = [client EXCEPT ![c] = s]
           /\ s.at = a /\ s.stmt = client[c].stmt /\ s.epoch = client[c].epoch
           /\ s.keys = client[c].keys /\ s.settled = client[c].settled
           /\ s.scanned = client[c].scanned /\ s.must = client[c].must
           /\ s.may = client[c].may
  BY <1>2, GotoFacts
<1>4. old.epoch \in Epochs /\ old.epoch < epoch /\ epoch \in Epochs
  BY <1>1 DEF Staged, Cleaning, Consistent, Types, Fits, TruncateOK
<1>5. Staged(s)
  BY <1>1, <1>3, <1>4, StageSets DEF Staged
<1>6. Fits(s)'
  <2>1. \A f \in Epochs : Stored(f)' \subseteq Stored(f)
    BY <1>4, LessStored
  <2>2. TruncateOK(s)'
    BY <1>1, <1>2, <1>3, <2>1 DEF Fits, TruncateOK, Cleaning
  <2>3. InsertOK(s)' /\ DeleteOK(s)' /\ QueryOK(s)'
    BY <1>1, <1>3 DEF InsertOK, DeleteOK, QueryOK
  <2>4. RefreshOK(s)'
    BY <1>1, <1>3 DEF RefreshOK, Rewriting, Cleaning
  <2> QED
    BY <2>2, <2>3, <2>4 DEF Fits
<1>7. \A d \in Clients : d # c => Apart(s, client[d]) /\ Apart(client[d], s)
  BY <1>1, <1>3, ClientFacts DEF Apart, Cleaning
<1>8. ~Invalidating(old) /\ ~Pending(old)
  BY <1>1 DEF Invalidating, Pending, Cleaning, Refresh, Rewriting
<1>9. old.epoch <= epoch /\ old.epoch # epoch
  <2>1. old.epoch \in Nat /\ epoch \in Nat
    BY <1>4, EpochNumbers
  <2> QED
    BY <1>4, <2>1
<1> QED
  BY <1>2, <1>3, <1>4, <1>5, <1>6, <1>7, <1>8, <1>9, WindOn

\* The three deletes of a prefix touch the chunks of the session's epoch.
LEMMA DropsAreLocal ==
  ASSUME Consistent, NEW c \in Clients, client[c].epoch \in Epochs
  PROVE  /\ \A a : DropMeta(c, a) => /\ ChunksOf(client[c].epoch)
                                     /\ chunkMeta'[client[c].epoch] = None
                                     /\ UNCHANGED <<chunkCols, stats, truth>> /\ Goto(c, a)
         /\ \A a : DropColumns(c, a) => /\ ChunksOf(client[c].epoch)
                                        /\ chunkCols'[client[c].epoch] = None
                                        /\ UNCHANGED <<chunkMeta, stats, truth>>
                                        /\ Goto(c, a)
         /\ DropStats(c) /\ UNCHANGED <<epoch, v2Rows, chunkMeta, chunkCols, cached>> =>
              ChunksOf(client[c].epoch)
<1>1. /\ chunkMeta \in [Epochs -> Chunks] /\ chunkCols \in [Epochs -> Chunks]
      /\ stats \in [Epochs -> Chunks] /\ None \in Chunks
  BY DEF Consistent, Types, Chunks
<1>2. ASSUME NEW a, DropMeta(c, a)
      PROVE  /\ ChunksOf(client[c].epoch) /\ chunkMeta'[client[c].epoch] = None
             /\ UNCHANGED <<chunkCols, stats, truth>> /\ Goto(c, a)
  BY <1>1, <1>2 DEF DropMeta, ChunksOf
<1>3. ASSUME NEW a, DropColumns(c, a)
      PROVE  /\ ChunksOf(client[c].epoch) /\ chunkCols'[client[c].epoch] = None
             /\ UNCHANGED <<chunkMeta, stats, truth>> /\ Goto(c, a)
  BY <1>1, <1>3 DEF DropColumns, ChunksOf
<1>4. ASSUME DropStats(c), UNCHANGED <<epoch, v2Rows, chunkMeta, chunkCols, cached>>
      PROVE  ChunksOf(client[c].epoch)
  BY <1>1, <1>4 DEF DropStats, ChunksOf
<1> QED
  BY <1>2, <1>3, <1>4

\* The deletes of a refresh.
LEMMA RefreshDropsOK ==
  ASSUME Consistent, NEW c \in Clients,
         RefreshDropMeta(c) \/ RefreshDropColumns(c) \/ RefreshDropStats(c)
  PROVE  Consistent'
<1>1. client[c].at \in {"drop meta", "drop columns", "drop stats"}
  BY DEF RefreshDropMeta, RefreshDropColumns, RefreshDropStats, At
<1>2. /\ client[c].at \in Rewriting /\ Staged(client[c]) /\ Fits(client[c])
      /\ {"drop columns", "drop stats", "put"} \subseteq Places
  BY <1>1, ClientFacts DEF Rewriting, Places, Refresh
<1>3. client[c].epoch \in Epochs
  BY <1>1, <1>2 DEF Staged
<1>4. CASE RefreshDropMeta(c)
  <2>1. DropMeta(c, "drop columns")
    BY <1>4 DEF RefreshDropMeta
  <2> QED
    BY <1>2, <1>3, <2>1, DropsAreLocal, RefreshGoesOn
<1>5. CASE RefreshDropColumns(c)
  <2>1. DropColumns(c, "drop stats") /\ client[c].at = "drop columns"
    BY <1>5 DEF RefreshDropColumns, At
  <2>2. v2Rows[client[c].epoch] = {} => chunkMeta[client[c].epoch] = None
    BY <1>2, <2>1 DEF Fits, RefreshOK
  <2>3. /\ ChunksOf(client[c].epoch) /\ chunkCols'[client[c].epoch] = None
        /\ UNCHANGED <<chunkMeta, stats, truth>> /\ Goto(c, "drop stats")
    BY <1>3, <2>1, DropsAreLocal
  <2> QED
    BY <1>2, <2>2, <2>3, RefreshGoesOn
<1>6. CASE RefreshDropStats(c)
  <2>1. /\ DropStats(c) /\ client[c].at = "drop stats" /\ Goto(c, "put")
        /\ UNCHANGED <<epoch, v2Rows, chunkMeta, chunkCols, cached, truth>>
    BY <1>6 DEF RefreshDropStats, At
  <2>2. v2Rows[client[c].epoch] = {} =>
          chunkMeta[client[c].epoch] = None /\ chunkCols[client[c].epoch] = None
    BY <1>2, <2>1 DEF Fits, RefreshOK
  <2>3. ChunksOf(client[c].epoch)
    BY <1>3, <2>1, DropsAreLocal
  <2> QED
    BY <1>2, <2>1, <2>2, <2>3, RefreshGoesOn
<1> QED
  BY <1>4, <1>5, <1>6

\* The deletes of TRUNCATE, of an epoch that is over.
LEMMA TruncateDropsOK ==
  ASSUME Consistent, NEW c \in Clients, TruncateMeta(c) \/ TruncateColumns(c)
  PROVE  Consistent'
<1>1. client[c].at \in {"old meta", "old columns"}
  BY DEF TruncateMeta, TruncateColumns, At
<1>2. /\ client[c].at \in Cleaning /\ Staged(client[c])
      /\ {"old columns", "old stats"} \subseteq Places
      /\ {"old columns", "old stats"} \subseteq Cleaning
  BY <1>1, ClientFacts DEF Cleaning, Places
<1>3. client[c].epoch \in Epochs
  BY <1>1, <1>2 DEF Staged
<1>4. CASE TruncateMeta(c)
  <2>1. DropMeta(c, "old columns")
    BY <1>4 DEF TruncateMeta
  <2> QED
    BY <1>2, <1>3, <2>1, DropsAreLocal, CleaningGoesOn
<1>5. CASE TruncateColumns(c)
  <2>1. DropColumns(c, "old stats")
    BY <1>5 DEF TruncateColumns
  <2> QED
    BY <1>2, <1>3, <2>1, DropsAreLocal, CleaningGoesOn
<1> QED
  BY <1>4, <1>5

\* The batch of a refresh makes the chunks exact.
LEMMA PutFacts ==
  ASSUME Consistent, NEW c \in Clients, RefreshPut(c)
  PROVE  /\ client[c].at = "put" /\ client[c].epoch \in Epochs
         /\ ChunksOf(client[c].epoch)
         /\ client[c].epoch = epoch => Matching' /\ Stored(epoch)' = v2Rows[epoch]
<1> DEFINE e == client[c].epoch
           rows == client[c].scanned
<1>1. client[c].at = "put"
  BY DEF RefreshPut, At
<1>2. client[c] \in Sessions /\ Staged(client[c]) /\ Fits(client[c])
  BY ClientFacts
<1>3. /\ e \in Epochs /\ rows = v2Rows[e] /\ v2Rows[e] \in Chunks
      /\ v2Rows[e] = {} => chunkMeta[e] = None /\ chunkCols[e] = None
  BY <1>1, <1>2 DEF Staged, Fits, RefreshOK, Rewriting, Consistent, Types, Chunks
<1>4. /\ chunkMeta \in [Epochs -> Chunks] /\ chunkCols \in [Epochs -> Chunks]
      /\ stats \in [Epochs -> Chunks] /\ None \in Chunks
  BY DEF Consistent, Types, Chunks
<1>5. UNCHANGED <<epoch, v2Rows, cached>> /\ stats' = [stats EXCEPT ![e] = rows]
  BY DEF RefreshPut
<1>6. /\ chunkMeta' \in [Epochs -> Chunks] /\ chunkCols' \in [Epochs -> Chunks]
      /\ \A f \in Epochs : f # e => /\ chunkMeta'[f] = chunkMeta[f]
                                    /\ chunkCols'[f] = chunkCols[f]
      /\ chunkMeta'[e] = Exact(e) /\ chunkCols'[e] = Exact(e)
  <2>1. CASE rows = {}
    <3>1. UNCHANGED <<chunkMeta, chunkCols>>
      BY <2>1 DEF RefreshPut
    <3> QED
      BY <1>3, <1>4, <2>1, <3>1 DEF Exact
  <2>2. CASE rows # {}
    <3>1. /\ chunkMeta' = [chunkMeta EXCEPT ![e] = rows]
          /\ chunkCols' = [chunkCols EXCEPT ![e] = rows]
      BY <2>2 DEF RefreshPut
    <3> QED
      BY <1>3, <1>4, <2>2, <3>1 DEF Exact
  <2> QED
    BY <2>1, <2>2
<1>7. stats' \in [Epochs -> Chunks] /\ (\A f \in Epochs : f # e => stats'[f] = stats[f])
      /\ stats'[e] = v2Rows[e]
  BY <1>3, <1>4, <1>5
<1>8. ChunksOf(e)
  BY <1>5, <1>6, <1>7 DEF ChunksOf
<1>9. ASSUME e = epoch PROVE Matching' /\ Stored(epoch)' = v2Rows[epoch]
  BY <1>5, <1>6, <1>7, <1>9 DEF Matching, Stored, InChunk, Exact
<1> QED
  BY <1>1, <1>3, <1>8, <1>9

\* The batch ends the refresh: DELETE is acknowledged, INSERT goes on to store its
\* schema, ANALYZE to invalidate the cache.
LEMMA RefreshPutOK ==
  ASSUME Consistent, NEW c \in Clients, RefreshPut(c)
  PROVE  Consistent'
<1> DEFINE old == client[c]
<1>1. /\ old.at = "put" /\ old.epoch \in Epochs /\ ChunksOf(old.epoch)
      /\ old.epoch = epoch => Matching' /\ Stored(epoch)' = v2Rows[epoch]
  BY PutFacts
<1>2. /\ old \in Sessions /\ Staged(old) /\ Fits(old)
      /\ \A d \in Clients : d # c => Apart(old, client[d])
  BY ClientFacts
<1>3. CASE old.stmt = "insert" /\ Goto(c, "store") /\ UNCHANGED truth
  <2>1. old.at \in Rewriting /\ "store" \in Places
    BY <1>1 DEF Rewriting, Places
  <2> QED
    BY <1>1, <1>3, <2>1, RefreshGoesOn
<1>4. CASE old.stmt = "analyze" /\ Goto(c, "invalidate") /\ UNCHANGED truth
  <2>1. old.at \in Rewriting /\ "invalidate" \in Places
    BY <1>1 DEF Rewriting, Places
  <2> QED
    BY <1>1, <1>4, <2>1, RefreshGoesOn
<1>5. CASE old.stmt = "delete" /\ End(c)
  <2> DEFINE g == old.settled
  <2>1. /\ client' = [client EXCEPT ![c] = Quiet]
        /\ truth' = [truth EXCEPT !.gone = @ \cup g]
    BY <1>5, EndFacts
  <2>2. /\ old.epoch = epoch /\ g \subseteq truth.acked /\ g \subseteq old.keys
        /\ old.keys \subseteq truth.condemned
        /\ old.keys \cap v2Rows[epoch] = {}
        /\ \A f \in Epochs : f < epoch => old.keys \cap Stored(f) = {}
    BY <1>1, <1>2, <1>5 DEF Fits, DeleteOK
  <2>3. g \in Rows
    BY <1>2 DEF Sessions
  <2>4. epoch \in Epochs /\ epoch \in Nat /\ epoch <= epoch
    BY <1>1, <2>2, EpochNumbers, EqLeq
  <2>5. Stored(epoch)' \cap g = {}
    BY <1>1, <2>2
  <2>6. cached # None => Stored(cached)' \cap g = {}
    <3>1. CASE cached = epoch
      <4>1. cached' = epoch'
        BY <1>1, <3>1 DEF ChunksOf
      <4> QED
        BY <2>5, <3>1, <4>1
    <3>2. CASE cached # None /\ cached # epoch
      <4>1. cached \in Epochs /\ cached <= epoch
        BY <3>2 DEF Consistent, Types, Told
      <4>2. cached < epoch
        BY <2>4, <3>2, <4>1, EpochNumbers
      <4>3. \A f \in Epochs : Stored(f)' \subseteq Stored(f)
        BY <1>1, LessStored
      <4>4. cached' = cached
        BY <1>1 DEF ChunksOf
      <4>5. Stored(cached)' \subseteq Stored(cached)
        BY <4>1, <4>3, <4>4
      <4> QED
        BY <2>2, <4>1, <4>2, <4>5
    <3> QED
      BY <3>1, <3>2
  <2>7. \A x \in Clients : x # c /\ client[x].stmt = "delete" => client[x].keys \cap g = {}
    BY <1>2, <1>5, <2>2 DEF Apart
  <2>8. ~Invalidating(old)
    BY <1>5 DEF Invalidating
  <2> HIDE DEF g
  <2> QED
    BY <1>1, <2>1, <2>2, <2>3, <2>4, <2>5, <2>6, <2>7, <2>8, QuietFacts, QuietFits,
       QuietFitsNext, WindDown
<1> QED
  BY <1>3, <1>4, <1>5 DEF RefreshPut

\* TRUNCATE is acknowledged: the rows it found are gone.
LEMMA TruncateStatsOK ==
  ASSUME Consistent, NEW c \in Clients, TruncateStats(c)
  PROVE  Consistent'
<1> DEFINE old == client[c]
           g == old.settled
<1>1. /\ old.at = "old stats" /\ DropStats(c) /\ End(c)
      /\ UNCHANGED <<epoch, v2Rows, chunkMeta, chunkCols, cached>>
  BY DEF TruncateStats, At
<1>2. /\ old \in Sessions /\ Staged(old) /\ Fits(old) /\ old.stmt = "truncate"
      /\ \A d \in Clients : d # c => Apart(client[d], old)
  BY <1>1, ClientFacts, StmtAt DEF Cleaning
<1>3. old.epoch \in Epochs /\ ChunksOf(old.epoch)
  BY <1>1, <1>2, DropsAreLocal DEF Staged
<1>4. client' = [client EXCEPT ![c] = Quiet] /\ truth' = [truth EXCEPT !.gone = @ \cup g]
  BY <1>1, <1>2, EndFacts
<1>5. /\ g \subseteq truth.acked \cap truth.condemned /\ old.epoch < epoch
      /\ \A f \in Epochs : f > old.epoch => g \cap Stored(f) = {}
      /\ cached # None => old.epoch < cached
  BY <1>1, <1>2 DEF Fits, TruncateOK, Cleaning
<1>6. epoch \in Epochs /\ old.epoch <= epoch /\ old.epoch # epoch
  <2>1. epoch \in Epochs
    BY DEF Consistent, Types
  <2>2. epoch \in Nat /\ old.epoch \in Nat
    BY <1>3, <2>1, EpochNumbers
  <2> QED
    BY <1>5, <2>1, <2>2
<1>7. \A f \in Epochs : Stored(f)' = Stored(f)
  BY <1>1 DEF Stored, InChunk
<1>8. Stored(epoch)' \cap g = {}
  <2>1. epoch > old.epoch
    BY <1>3, <1>5, <1>6, EpochNumbers
  <2>2. g \cap Stored(epoch) = {}
    BY <1>5, <1>6, <2>1
  <2>3. Stored(epoch)' = Stored(epoch)
    BY <1>1 DEF Stored, InChunk
  <2> QED
    BY <2>2, <2>3
<1>9. cached # None => Stored(cached)' \cap g = {}
  <2> SUFFICES ASSUME cached # None PROVE Stored(cached)' \cap g = {}
    OBVIOUS
  <2>1. cached \in Epochs
    BY DEF Consistent, Types
  <2>2. cached > old.epoch
    BY <1>3, <1>5, <2>1, EpochNumbers
  <2>3. Stored(cached)' = Stored(cached)
    BY <1>1 DEF Stored, InChunk
  <2> QED
    BY <1>5, <2>1, <2>2, <2>3
<1>10. \A x \in Clients : x # c /\ client[x].stmt = "delete" => client[x].keys \cap g = {}
  BY <1>1, <1>2 DEF Apart
<1>11. g \in Rows /\ ~Invalidating(old) /\ ~Pending(old)
  BY <1>1, <1>2 DEF Sessions, Invalidating, Pending, Refresh, Rewriting
<1> HIDE DEF g
<1> QED
  BY <1>3, <1>4, <1>5, <1>6, <1>8, <1>9, <1>10, <1>11, QuietFacts, QuietFits,
     QuietFitsNext, WindDown

-----------------------------------------------------------------------------
\* The frame all actions share that change one session: what is left to show.
LEMMA OneSession ==
  ASSUME Consistent, NEW c \in Clients, NEW s \in Sessions,
         client' = [client EXCEPT ![c] = s], Staged(s),
         epoch' \in Epochs, v2Rows' \in [Epochs -> Rows], cached' \in Epochs \cup {None},
         UNCHANGED <<chunkMeta, chunkCols, stats>>,
         truth' \in [begun : Rows, acked : Rows, condemned : Rows, gone : Rows],
         Told', StaleCache', Settled', Fits(s)',
         \A x \in Clients : x # c => InsertOK(client[x])' /\ DeleteOK(client[x])'
           /\ TruncateOK(client[x])' /\ RefreshOK(client[x])' /\ QueryOK(client[x])',
         \A d \in Clients : d # c => Apart(s, client[d]) /\ Apart(client[d], s)
  PROVE  Consistent'
<1>0. Types /\ Pairs /\ client \in [Clients -> Sessions]
  BY DEF Consistent, Types
<1>1. /\ client'[c] = s
      /\ \A x \in Clients : x # c => client'[x] = client[x]
  BY <1>0
<1>2. Types'
  <2>1. client' \in [Clients -> Sessions]
    BY <1>0
  <2>2. \A x \in Clients : Staged(client[x])
    BY <1>0 DEF Types, Staged
  <2>3. \A x \in Clients : Staged(client'[x])
    BY <1>1, <2>2
  <2> QED
    BY <1>0, <2>1, <2>3 DEF Types, Staged
<1>3. Each'
  <2> SUFFICES ASSUME NEW x \in Clients PROVE Fits(client[x])'
    BY DEF Each, Fits
  <2>1. CASE x = c
    <3>1. client'[x] = s
      BY <1>1, <2>1
    <3>2. InsertOK(client[x])'
      BY <3>1 DEF Fits, InsertOK
    <3>3. DeleteOK(client[x])'
      BY <3>1 DEF Fits, DeleteOK
    <3>4. TruncateOK(client[x])'
      BY <3>1 DEF Fits, TruncateOK
    <3>5. RefreshOK(client[x])'
      BY <3>1 DEF Fits, RefreshOK
    <3>6. QueryOK(client[x])'
      BY <3>1 DEF Fits, QueryOK
    <3> QED
      BY <3>2, <3>3, <3>4, <3>5, <3>6 DEF Fits
  <2>2. CASE x # c
    BY <2>2 DEF Fits
  <2> QED
    BY <2>1, <2>2
<1>4. Pairs'
  <2>1. \A x, y \in Clients : x # y => Apart(client'[x], client'[y])
    BY <1>0, <1>1 DEF Pairs
  <2> QED
    BY <2>1 DEF Pairs, Apart
<1> QED
  BY <1>2, <1>3, <1>4 DEF Consistent

\* The last step of an INSERT: the planned schema, with its epoch, is stored again.
LEMMA StoreSchemaOK ==
  ASSUME Consistent, NEW c \in Clients, StoreSchema(c)
  PROVE  Consistent'
<1> DEFINE old == client[c]
<1>1. /\ old.at = "store" /\ epoch' = old.epoch /\ End(c)
      /\ UNCHANGED <<v2Rows, chunkMeta, chunkCols, stats, cached>>
  BY DEF StoreSchema, At
<1>2. /\ old \in Sessions /\ Fits(old) /\ old.stmt = "insert"
      /\ \A d \in Clients : d # c => Apart(old, client[d]) /\ Apart(client[d], old)
  BY <1>1, ClientFacts, StmtAt
<1>3. /\ old.epoch = epoch /\ old.keys \subseteq truth.begun \ truth.acked
      /\ old.keys \subseteq v2Rows[epoch] \cup truth.condemned
  BY <1>1, <1>2 DEF Fits, InsertOK
<1>4. /\ client' = [client EXCEPT ![c] = Quiet]
      /\ truth' = [truth EXCEPT !.acked = @ \cup old.keys]
  BY <1>1, <1>2, EndFacts
<1>5. /\ truth' \in [begun : Rows, acked : Rows, condemned : Rows, gone : Rows]
      /\ truth'.begun = truth.begun /\ truth'.acked = truth.acked \cup old.keys
      /\ truth'.condemned = truth.condemned /\ truth'.gone = truth.gone
  <2>1. truth \in [begun : Rows, acked : Rows, condemned : Rows, gone : Rows]
    BY DEF Consistent, Types
  <2>2. truth.acked \cup old.keys \in Rows
    BY <1>2, <2>1 DEF Sessions, Rows
  <2> QED
    BY <1>4, <2>1, <2>2
<1>6. /\ UNCHANGED <<epoch, v2Rows, chunkMeta, chunkCols, stats, cached>>
      /\ \A e : Stored(e)' = Stored(e)
  BY <1>1, <1>3 DEF Stored, InChunk
<1>7. Surely \subseteq Surely' /\ Possibly' = Possibly
  BY <1>5 DEF Surely, Possibly
<1>8. Told'
  <2>1. Told
    BY DEF Consistent
  <2>2. Surely' \subseteq v2Rows[epoch]
    BY <1>3, <1>5, <2>1 DEF Told, Surely
  <2>3. Stored(epoch)' = Stored(epoch) /\ Stored(cached)' = Stored(cached)
    BY <1>6 DEF Stored, InChunk
  <2> QED
    BY <1>3, <1>5, <1>6, <2>1, <2>2, <2>3 DEF Told
<1>9. /\ \A x \in Clients : x # c => client'[x] = client[x]
      /\ client'[c] = Quiet
  BY <1>4 DEF Consistent, Types
<1>10. StaleCache'
  <2>1. ~Invalidating(old)
    BY <1>2 DEF Invalidating
  <2> QED
    BY <1>6, <1>9, <2>1 DEF Consistent, StaleCache, Invalidating
<1>11. Settled'
  <2>1. ~Pending(old)
    BY <1>1 DEF Pending, Refresh, Rewriting
  <2> QED
    BY <1>6, <1>9, <2>1 DEF Consistent, Settled, Pending, Matching
<1>12. ASSUME NEW x \in Clients, x # c
       PROVE  InsertOK(client[x])' /\ DeleteOK(client[x])' /\ TruncateOK(client[x])'
              /\ RefreshOK(client[x])' /\ QueryOK(client[x])'
  <2>1. /\ Fits(client[x]) /\ client'[x] = client[x] /\ Apart(old, client[x])
        /\ Apart(client[x], old)
    BY <1>2, <1>9, <1>12, ClientFacts
  <2>2. InsertOK(client[x])'
    BY <1>2, <1>5, <1>6, <2>1 DEF Fits, InsertOK, Apart
  <2>3. DeleteOK(client[x])'
    BY <1>5, <1>6, <2>1 DEF Fits, DeleteOK
  <2>4. TruncateOK(client[x])'
    BY <1>1, <1>2, <1>5, <1>6, <2>1 DEF Fits, TruncateOK, Apart
  <2>5. RefreshOK(client[x])'
    BY <1>6, <2>1 DEF Fits, RefreshOK
  <2>6. QueryOK(client[x])'
    <3>1. Stored(client[x].epoch)' = Stored(client[x].epoch)
      BY <1>6, <2>1
    <3> QED
      BY <1>6, <1>7, <2>1, <3>1 DEF Fits, QueryOK
  <2> QED
    BY <2>2, <2>3, <2>4, <2>5, <2>6
<1>13. epoch' \in Epochs /\ v2Rows' \in [Epochs -> Rows] /\ cached' \in Epochs \cup {None}
  BY <1>6 DEF Consistent, Types
<1> QED
  BY <1>4, <1>5, <1>6, <1>8, <1>10, <1>11, <1>12, <1>13, QuietFacts, QuietFits, QuietFitsNext,
     OneSession

\* The cache is emptied; after it no provider of an old epoch is cached.
LEMMA InvalidateOK ==
  ASSUME Consistent, NEW c \in Clients, Invalidate(c)
  PROVE  Consistent'
<1> DEFINE old == client[c]
<1>1. old.at = "invalidate" /\ cached' = None /\ UNCHANGED storeVars
  BY DEF Invalidate, Invalidated, At
<1>2. /\ old \in Sessions /\ Fits(old) /\ Staged(old)
      /\ old.stmt \in {"analyze", "truncate"}
      /\ \A d \in Clients : d # c => Apart(old, client[d]) /\ Apart(client[d], old)
  BY <1>1, ClientFacts, StmtAt
<1>3. UNCHANGED truth /\ \E s \in Sessions :
        /\ client' = [client EXCEPT ![c] = s] /\ Staged(s) /\ Fits(s)'
        /\ \A d \in Clients : d # c => Apart(s, client[d]) /\ Apart(client[d], s)
  <2>1. CASE old.stmt = "analyze"
    <3>1. End(c)
      BY <2>1 DEF Invalidate
    <3>2. client' = [client EXCEPT ![c] = Quiet] /\ UNCHANGED truth
      BY <2>1, <3>1, EndFacts
    <3> QED
      BY <3>2, QuietFacts, QuietFits, QuietFitsNext
  <2>2. CASE old.stmt = "truncate"
    <3>1. Goto(c, "old meta") /\ UNCHANGED truth
      BY <2>2 DEF Invalidate
    <3>2. Types /\ "old meta" \in Places
      BY DEF Consistent, Places, Cleaning
    <3>3. PICK s \in Sessions :
            /\ client' = [client EXCEPT ![c] = s]
            /\ s.at = "old meta" /\ s.stmt = client[c].stmt /\ s.epoch = client[c].epoch
            /\ s.keys = client[c].keys /\ s.settled = client[c].settled
            /\ s.scanned = client[c].scanned /\ s.must = client[c].must
            /\ s.may = client[c].may
      BY <3>1, <3>2, GotoFacts
    <3>4. Staged(s)
      BY <1>1, <1>2, <2>2, <3>3, StageSets DEF Staged, Cleaning
    <3>5. \A d \in Clients : d # c => Apart(s, client[d]) /\ Apart(client[d], s)
      BY <1>1, <1>2, <2>2, <3>3 DEF Apart
    <3>6. TruncateOK(s)'
      <4>1. \A e : Stored(e)' = Stored(e)
        BY <1>1 DEF Stored, InChunk, storeVars
      <4> QED
        BY <1>1, <1>2, <2>2, <3>1, <3>3, <4>1 DEF Fits, TruncateOK, storeVars
    <3>7. InsertOK(s)' /\ DeleteOK(s)' /\ RefreshOK(s)' /\ QueryOK(s)'
      BY <2>2, <3>3 DEF InsertOK, DeleteOK, RefreshOK, QueryOK, Rewriting
    <3> QED
      BY <3>1, <3>3, <3>4, <3>5, <3>6, <3>7 DEF Fits
  <2> QED
    BY <1>2, <2>1, <2>2
<1>4. PICK s \in Sessions :
        /\ client' = [client EXCEPT ![c] = s] /\ Staged(s) /\ Fits(s)'
        /\ \A d \in Clients : d # c => Apart(s, client[d]) /\ Apart(client[d], s)
  BY <1>3
<1>5. /\ UNCHANGED <<epoch, v2Rows, chunkMeta, chunkCols, stats, truth>>
      /\ \A e : Stored(e)' = Stored(e)
  BY <1>1, <1>3 DEF Stored, InChunk, storeVars
<1>6. Surely' = Surely /\ Possibly' = Possibly
  BY <1>3 DEF Surely, Possibly
<1>7. Told'
  <2>1. Stored(epoch)' = Stored(epoch)
    BY <1>5 DEF Stored, InChunk
  <2> QED
    BY <1>1, <1>5, <1>6, <2>1 DEF Consistent, Told
<1>8. \A x \in Clients : x # c => client'[x] = client[x]
  BY <1>4 DEF Consistent, Types
<1>9. StaleCache'
  BY <1>1 DEF StaleCache
<1>10. Settled'
  <2>1. ~Pending(old)
    BY <1>1 DEF Pending, Refresh, Rewriting
  <2> QED
    BY <1>5, <1>8, <2>1 DEF Consistent, Settled, Pending, Matching
<1>11. ASSUME NEW x \in Clients, x # c
       PROVE  InsertOK(client[x])' /\ DeleteOK(client[x])' /\ TruncateOK(client[x])'
              /\ RefreshOK(client[x])' /\ QueryOK(client[x])'
  <2>1. Fits(client[x]) /\ client'[x] = client[x]
    BY <1>8, <1>11, ClientFacts
  <2>2. InsertOK(client[x])' /\ DeleteOK(client[x])'
    BY <1>5, <2>1 DEF Fits, InsertOK, DeleteOK
  <2>3. TruncateOK(client[x])'
    BY <1>1, <1>5, <2>1 DEF Fits, TruncateOK
  <2>4. RefreshOK(client[x])'
    BY <1>5, <2>1 DEF Fits, RefreshOK
  <2>5. QueryOK(client[x])'
    <3>1. Stored(client[x].epoch)' = Stored(client[x].epoch)
      BY <1>5, <2>1
    <3> QED
      BY <1>5, <1>6, <2>1, <3>1 DEF Fits, QueryOK
  <2> QED
    BY <2>2, <2>3, <2>4, <2>5
<1>12. /\ epoch' \in Epochs /\ v2Rows' \in [Epochs -> Rows]
       /\ cached' \in Epochs \cup {None}
       /\ truth' \in [begun : Rows, acked : Rows, condemned : Rows, gone : Rows]
  BY <1>1, <1>5 DEF Consistent, Types
<1> QED
  BY <1>4, <1>5, <1>7, <1>9, <1>10, <1>11, <1>12, OneSession

\* A provider of the current epoch is cached.
LEMMA CacheProviderOK ==
  ASSUME Consistent, NEW c \in Clients, CacheProvider(c), client[c].epoch = epoch
  PROVE  Consistent'
<1> DEFINE old == client[c]
<1>1. /\ old.at = "cache" /\ cached' = epoch /\ Goto(c, "rows")
      /\ UNCHANGED <<storeVars, truth>>
  BY DEF CacheProvider, At
<1>2. /\ old \in Sessions /\ Fits(old) /\ Staged(old) /\ old.stmt = "query"
  BY <1>1, ClientFacts, StmtAt
<1>3. Types /\ "rows" \in Places
  BY DEF Consistent, Places, Reading
<1>4. PICK s \in Sessions :
        /\ client' = [client EXCEPT ![c] = s]
        /\ s.at = "rows" /\ s.stmt = client[c].stmt /\ s.epoch = client[c].epoch
        /\ s.keys = client[c].keys /\ s.settled = client[c].settled
        /\ s.scanned = client[c].scanned /\ s.must = client[c].must /\ s.may = client[c].may
  BY <1>1, <1>3, GotoFacts
<1>5. Staged(s)
  BY <1>1, <1>2, <1>4, StageSets DEF Staged, Reading
<1>6. /\ UNCHANGED <<epoch, v2Rows, chunkMeta, chunkCols, stats, truth>>
      /\ \A e : Stored(e)' = Stored(e)
  BY <1>1 DEF Stored, InChunk, storeVars
<1>7. Surely' = Surely /\ Possibly' = Possibly
  BY <1>1 DEF Surely, Possibly
<1>8. epoch \in Epochs /\ epoch <= epoch
  BY <1>3, EpochNumbers, EqLeq DEF Types
<1>9. Stored(epoch)' = Stored(epoch) /\ Stored(cached)' = Stored(epoch)
  BY <1>1, <1>6 DEF Stored, InChunk
<1>10. Stored(epoch) \cap truth.gone = {} /\ Stored(epoch) \subseteq truth.begun
  BY <1>8 DEF Consistent, Told
<1>11. Told'
  BY <1>1, <1>6, <1>7, <1>8, <1>9 DEF Consistent, Told
<1>12. \A x \in Clients : x # c => client'[x] = client[x]
  BY <1>4 DEF Consistent, Types
<1>13. StaleCache'
  BY <1>1, <1>6 DEF StaleCache
<1>14. Settled'
  <2>1. ~Pending(old)
    BY <1>1 DEF Pending, Refresh, Rewriting
  <2> QED
    BY <1>6, <1>12, <2>1 DEF Consistent, Settled, Pending, Matching
<1>15. Fits(s)'
  <2>1. InsertOK(s)' /\ DeleteOK(s)' /\ RefreshOK(s)' /\ TruncateOK(s)'
    BY <1>2, <1>4 DEF InsertOK, DeleteOK, RefreshOK, TruncateOK, Rewriting
  <2>2. QueryOK(s)'
    <3>1. s.must \subseteq Surely /\ Possibly \subseteq s.may
      BY <1>2, <1>4 DEF Fits, QueryOK
    <3>2. Stored(epoch) \subseteq s.may
      BY <1>10, <3>1 DEF Possibly
    <3>3. s.epoch = epoch'
      BY <1>4, <1>6
    <3>4. Stored(s.epoch)' = Stored(epoch)
      BY <1>4, <1>6
    <3> QED
      BY <1>4, <1>6, <1>7, <1>8, <3>1, <3>2, <3>3, <3>4 DEF QueryOK
  <2> QED
    BY <2>1, <2>2 DEF Fits
<1>16. ASSUME NEW x \in Clients, x # c
       PROVE  InsertOK(client[x])' /\ DeleteOK(client[x])' /\ TruncateOK(client[x])'
              /\ RefreshOK(client[x])' /\ QueryOK(client[x])'
  <2>1. Fits(client[x]) /\ client'[x] = client[x]
    BY <1>12, <1>16, ClientFacts
  <2>2. InsertOK(client[x])' /\ DeleteOK(client[x])'
    BY <1>6, <2>1 DEF Fits, InsertOK, DeleteOK
  <2>3. TruncateOK(client[x])'
    BY <1>1, <1>6, <2>1 DEF Fits, TruncateOK, Cleaning
  <2>4. RefreshOK(client[x])'
    BY <1>6, <2>1 DEF Fits, RefreshOK
  <2>5. QueryOK(client[x])'
    <3>1. Stored(client[x].epoch)' = Stored(client[x].epoch)
      BY <1>6, <2>1
    <3> QED
      BY <1>6, <1>7, <2>1, <3>1 DEF Fits, QueryOK
  <2> QED
    BY <2>2, <2>3, <2>4, <2>5
<1>17. /\ epoch' \in Epochs /\ v2Rows' \in [Epochs -> Rows]
       /\ cached' \in Epochs \cup {None}
       /\ truth' \in [begun : Rows, acked : Rows, condemned : Rows, gone : Rows]
  BY <1>1, <1>3, <1>6 DEF Types
<1>18. \A d \in Clients : d # c => Apart(s, client[d]) /\ Apart(client[d], s)
  BY <1>2, <1>4 DEF Apart
<1> QED
  BY <1>4, <1>5, <1>6, <1>11, <1>13, <1>14, <1>15, <1>16, <1>17, <1>18, OneSession

-----------------------------------------------------------------------------
\* A row is written or deleted.  No other refresh of the epoch is under way, or the
\* step would be a race.
LEMMA WriteRowOK ==
  ASSUME Consistent, NEW c \in Clients, WriteRow(c), ~RefreshIsStale(c),
         \A x \in Clients : ~Invalidating(client[x])
  PROVE  Consistent'
<1> DEFINE old == client[c]
           k == old.keys
<1>1. /\ old.at = "row" /\ old.stmt = "insert" /\ Goto(c, "scan")
      /\ v2Rows' = [v2Rows EXCEPT ![old.epoch] = @ \cup k]
      /\ UNCHANGED <<epoch, chunkMeta, chunkCols, stats, cached, truth>>
  BY DEF WriteRow, At
<1>2. /\ old \in Sessions /\ Fits(old) /\ Staged(old)
      /\ \A d \in Clients : d # c => Apart(old, client[d]) /\ Apart(client[d], old)
  BY ClientFacts
<1>3. /\ old.epoch = epoch /\ k \subseteq truth.begun \ truth.acked
      /\ \A e \in Epochs : k \cap Stored(e) = {}
  BY <1>1, <1>2 DEF Fits, InsertOK
<1>4. Types /\ Told /\ "scan" \in Places /\ epoch \in Epochs
  BY DEF Consistent, Types, Places, Refresh
<1>5. PICK s \in Sessions :
        /\ client' = [client EXCEPT ![c] = s]
        /\ s.at = "scan" /\ s.stmt = client[c].stmt /\ s.epoch = client[c].epoch
        /\ s.keys = client[c].keys /\ s.settled = client[c].settled
        /\ s.scanned = client[c].scanned /\ s.must = client[c].must /\ s.may = client[c].may
  BY <1>1, <1>4, GotoFacts
<1>6. Staged(s)
  BY <1>1, <1>2, <1>5, StageSets DEF Staged, Refresh
<1>7. /\ v2Rows' \in [Epochs -> Rows]
      /\ v2Rows'[epoch] = v2Rows[epoch] \cup k
      /\ \A e \in Epochs : e # epoch => v2Rows'[e] = v2Rows[e]
  <2>1. v2Rows \in [Epochs -> Rows] /\ v2Rows[epoch] \cup k \in Rows
    BY <1>2, <1>4 DEF Types, Sessions, Rows
  <2> QED
    BY <1>1, <1>3, <1>4, <2>1
<1>8. \A e \in Epochs : Stored(e)' = IF e = epoch THEN Stored(e) \cup k ELSE Stored(e)
  BY <1>1, <1>4, <1>7 DEF Stored, InChunk
<1>9. Surely' = Surely /\ Possibly' = Possibly
  BY <1>1 DEF Surely, Possibly
<1>10. k \cap truth.gone = {} /\ k \subseteq Possibly
  BY <1>3, <1>4 DEF Told, Possibly
<1>11. Told'
  <2>1. \A e \in Epochs :
       /\ Stored(e)' \subseteq truth.begun
       /\ e < epoch => Stored(e)' \subseteq truth.condemned
       /\ e > epoch => /\ v2Rows'[e] = {} /\ chunkMeta[e] = None
                       /\ chunkCols[e] = None /\ stats[e] = None
    <3> SUFFICES ASSUME NEW e \in Epochs
                 PROVE  /\ Stored(e)' \subseteq truth.begun
                        /\ e < epoch => Stored(e)' \subseteq truth.condemned
                        /\ e > epoch => /\ v2Rows'[e] = {} /\ chunkMeta[e] = None
                                        /\ chunkCols[e] = None /\ stats[e] = None
      OBVIOUS
    <3>1. CASE e = epoch
      <4>1. ~(e < epoch) /\ ~(e > epoch)
        BY <1>4, <3>1, EpochNumbers
      <4> QED
        BY <1>3, <1>4, <1>8, <3>1, <4>1 DEF Told
    <3>2. CASE e # epoch
      BY <1>4, <1>7, <1>8, <3>2 DEF Told
    <3> QED
      BY <3>1, <3>2
  <2>2. Surely' \subseteq v2Rows'[epoch]
    BY <1>4, <1>7, <1>9 DEF Told
  <2>3. Stored(epoch)' \cap truth.gone = {}
    <3>1. Stored(epoch)' = Stored(epoch) \cup k
      BY <1>1, <1>4, <1>8
    <3> QED
      BY <1>4, <1>10, <3>1 DEF Told
  <2>4. cached # None => cached <= epoch /\ Stored(cached)' \cap truth.gone = {}
    <3>1. cached # None => cached \in Epochs /\ Stored(cached)' \subseteq
            Stored(cached) \cup k
      BY <1>1, <1>4, <1>8 DEF Types
    <3> QED
      BY <1>4, <1>10, <3>1 DEF Told
  <2> QED
    BY <1>1, <1>4, <2>1, <2>2, <2>3, <2>4 DEF Told
<1>12. client'[c] = s /\ (\A x \in Clients : x # c => client'[x] = client[x])
  BY <1>4, <1>5 DEF Types
<1>13. StaleCache'
  BY <1>1 DEF Consistent, StaleCache
<1>14. Settled'
  <2>1. Pending(client[c])'
    BY <1>1, <1>3, <1>5, <1>12 DEF Pending, Refresh
  <2> QED
    BY <2>1 DEF Settled
<1>15. Fits(s)'
  <2>1. InsertOK(s)'
    BY <1>1, <1>3, <1>5, <1>7 DEF InsertOK
  <2>2. DeleteOK(s)' /\ TruncateOK(s)' /\ RefreshOK(s)' /\ QueryOK(s)'
    BY <1>1, <1>5 DEF DeleteOK, TruncateOK, RefreshOK, QueryOK, Rewriting
  <2> QED
    BY <2>1, <2>2 DEF Fits
<1>16. ASSUME NEW x \in Clients, x # c
       PROVE  InsertOK(client[x])' /\ DeleteOK(client[x])' /\ TruncateOK(client[x])'
              /\ RefreshOK(client[x])' /\ QueryOK(client[x])'
  <2>1. /\ Fits(client[x]) /\ Staged(client[x]) /\ client'[x] = client[x]
        /\ Apart(old, client[x]) /\ Apart(client[x], old)
    BY <1>2, <1>12, <1>16, ClientFacts
  <2>2. InsertOK(client[x])'
    BY <1>1, <1>4, <1>7, <1>8, <2>1 DEF Fits, InsertOK, Apart
  <2>3. DeleteOK(client[x])'
    <3>1. \A e \in Epochs : e < epoch => Stored(e)' = Stored(e)
      BY <1>4, <1>8, EpochNumbers
    <3> QED
      BY <1>1, <1>7, <2>1, <3>1 DEF Fits, DeleteOK, Apart
  <2>4. TruncateOK(client[x])'
    BY <1>1, <1>3, <1>8, <2>1 DEF Fits, TruncateOK
  <2>5. RefreshOK(client[x])'
    <3>1. client[x].at \in Rewriting => /\ client[x].epoch \in Epochs
                                        /\ client[x].epoch # epoch
      BY <1>3, <1>16, <2>1 DEF RefreshIsStale, Refreshing, Staged, Rewriting
    <3> QED
      BY <1>1, <1>7, <2>1, <3>1 DEF Fits, RefreshOK, Rewriting
  <2>6. QueryOK(client[x])'
    <3>1. client[x].at \in Reading =>
            client[x].epoch \in Epochs /\ Stored(client[x].epoch)' \subseteq
              Stored(client[x].epoch) \cup k
      BY <1>8, <2>1 DEF Staged, Reading
    <3> QED
      BY <1>1, <1>9, <1>10, <2>1, <3>1 DEF Fits, QueryOK
  <2> QED
    BY <2>2, <2>3, <2>4, <2>5, <2>6
<1>17. /\ epoch' \in Epochs /\ cached' \in Epochs \cup {None}
       /\ truth' \in [begun : Rows, acked : Rows, condemned : Rows, gone : Rows]
  BY <1>1, <1>4 DEF Types
<1>18. \A d \in Clients : d # c => Apart(s, client[d]) /\ Apart(client[d], s)
  BY <1>1, <1>2, <1>5 DEF Apart, Invalidating
<1> QED
  BY <1>1, <1>5, <1>6, <1>7, <1>11, <1>13, <1>14, <1>15, <1>16, <1>17, <1>18, OneSession

LEMMA DeleteRowOK ==
  ASSUME Consistent, NEW c \in Clients, DeleteRow(c),
         client[c].keys \subseteq v2Rows[client[c].epoch] => ~RefreshIsStale(c)
  PROVE  Consistent'
<1> DEFINE old == client[c]
           k == old.keys
<1>1. /\ old.at = "row" /\ old.stmt = "delete"
      /\ UNCHANGED <<epoch, chunkMeta, chunkCols, stats, cached>>
  BY DEF DeleteRow, At
<1>2. /\ old \in Sessions /\ Fits(old) /\ Staged(old)
      /\ \A d \in Clients : d # c => Apart(old, client[d]) /\ Apart(client[d], old)
  BY ClientFacts
<1>3. /\ old.epoch = epoch /\ k \subseteq truth.condemned \ truth.gone
      /\ old.settled \in {{}, k} /\ old.settled \subseteq v2Rows[epoch]
  BY <1>1, <1>2 DEF Fits, DeleteOK
<1>4. Types /\ Told /\ "scan" \in Places /\ epoch \in Epochs
  BY DEF Consistent, Types, Places, Refresh
\* A row that is not there was never acknowledged.
<1>5. CASE ~(k \subseteq v2Rows[old.epoch])
  <2>1. End(c) /\ UNCHANGED v2Rows
    BY <1>5 DEF DeleteRow
  <2>2. old.settled = {}
    BY <1>3, <1>5
  <2>3. client' = [client EXCEPT ![c] = Quiet] /\ truth' = [truth EXCEPT !.gone = @ \cup {}]
    BY <1>1, <2>1, <2>2, EndFacts
  <2>4. UNCHANGED truth
    BY <1>4, <2>3 DEF Types
  <2>5. ~Invalidating(old) /\ ~Pending(old)
    BY <1>1 DEF Invalidating, Pending, Refresh, Rewriting
  <2>6. UNCHANGED <<storeVars, cached, truth>>
    BY <1>1, <2>1, <2>4 DEF storeVars
  <2> QED
    BY <2>3, <2>5, <2>6, QuietFacts, QuietFits, LocalStep
<1>6. CASE k \subseteq v2Rows[old.epoch]
  <2>1. /\ v2Rows' = [v2Rows EXCEPT ![old.epoch] = @ \ k] /\ Goto(c, "scan")
        /\ UNCHANGED truth
        /\ ~RefreshIsStale(c)
    BY <1>6 DEF DeleteRow
  <2>2. PICK s \in Sessions :
          /\ client' = [client EXCEPT ![c] = s]
          /\ s.at = "scan" /\ s.stmt = client[c].stmt /\ s.epoch = client[c].epoch
          /\ s.keys = client[c].keys /\ s.settled = client[c].settled
          /\ s.scanned = client[c].scanned /\ s.must = client[c].must
          /\ s.may = client[c].may
    BY <1>4, <2>1, GotoFacts
  <2>3. Staged(s)
    BY <1>1, <1>2, <2>2, StageSets DEF Staged, Refresh
  <2>4. /\ v2Rows' \in [Epochs -> Rows]
        /\ v2Rows'[epoch] = v2Rows[epoch] \ k
        /\ \A e \in Epochs : e # epoch => v2Rows'[e] = v2Rows[e]
    <3>1. v2Rows \in [Epochs -> Rows] /\ v2Rows[epoch] \ k \in Rows
      BY <1>4 DEF Types, Rows
    <3> QED
      BY <1>3, <1>4, <2>1, <3>1
  <2>5. \A e \in Epochs : Stored(e)' \subseteq Stored(e)
    BY <1>1, <1>4, <2>4 DEF Stored, InChunk
  <2>6. Surely' = Surely /\ Possibly' = Possibly
    BY <2>1 DEF Surely, Possibly
  <2>7. Told'
    <3>1. \A e \in Epochs : e > epoch => v2Rows'[e] = {}
      BY <1>4, <2>4, EpochNumbers DEF Told
    <3>2. Surely' \subseteq v2Rows'[epoch]
      BY <1>3, <1>4, <2>4, <2>6 DEF Told, Surely
    <3>3. Stored(epoch)' \subseteq Stored(epoch)
      BY <1>1, <1>4, <2>5
    <3>4. cached # None => cached \in Epochs /\ Stored(cached)' \subseteq Stored(cached)
      BY <1>1, <1>4, <2>5 DEF Types
    <3>5. \A e \in Epochs : /\ Stored(e)' \subseteq truth.begun
                            /\ e < epoch => Stored(e)' \subseteq truth.condemned
      BY <1>4, <2>5 DEF Told
    <3> QED
      BY <1>1, <1>4, <2>1, <3>1, <3>2, <3>3, <3>4, <3>5 DEF Told
  <2>8. client'[c] = s /\ (\A x \in Clients : x # c => client'[x] = client[x])
    BY <1>4, <2>2 DEF Types
  <2>9. StaleCache'
    <3>1. ~Invalidating(old)
      BY <1>1 DEF Invalidating
    <3> QED
      BY <1>1, <2>8, <3>1 DEF Consistent, StaleCache, Invalidating
  <2>10. Settled'
    <3>1. Pending(client[c])'
      BY <1>1, <1>3, <2>2, <2>8 DEF Pending, Refresh
    <3> QED
      BY <3>1 DEF Settled
  <2>11. Fits(s)'
    <3>1. DeleteOK(s)'
      BY <1>1, <1>2, <1>3, <2>1, <2>2, <2>4, <2>5 DEF Fits, DeleteOK
    <3>2. InsertOK(s)' /\ TruncateOK(s)' /\ RefreshOK(s)' /\ QueryOK(s)'
      BY <1>1, <2>2 DEF InsertOK, TruncateOK, RefreshOK, QueryOK, Rewriting
    <3> QED
      BY <3>1, <3>2 DEF Fits
  <2>12. ASSUME NEW x \in Clients, x # c
         PROVE  InsertOK(client[x])' /\ DeleteOK(client[x])' /\ TruncateOK(client[x])'
                /\ RefreshOK(client[x])' /\ QueryOK(client[x])'
    <3>1. /\ Fits(client[x]) /\ Staged(client[x]) /\ client'[x] = client[x]
          /\ Apart(old, client[x]) /\ Apart(client[x], old)
      BY <1>2, <2>8, <2>12, ClientFacts
    <3>2. InsertOK(client[x])'
      BY <1>1, <1>3, <2>1, <2>4, <2>5, <3>1 DEF Fits, InsertOK
    <3>3. DeleteOK(client[x])'
      BY <1>1, <2>1, <2>4, <2>5, <3>1 DEF Fits, DeleteOK, Apart
    <3>4. TruncateOK(client[x])'
      BY <1>1, <2>1, <2>5, <3>1 DEF Fits, TruncateOK
    <3>5. RefreshOK(client[x])'
      <4>1. client[x].at \in Rewriting => /\ client[x].epoch \in Epochs
                                          /\ client[x].epoch # epoch
        BY <1>3, <2>1, <2>12, <3>1 DEF RefreshIsStale, Refreshing, Staged, Rewriting
      <4> QED
        BY <1>1, <2>4, <3>1, <4>1 DEF Fits, RefreshOK, Rewriting
    <3>6. QueryOK(client[x])'
      <4>1. client[x].at \in Reading =>
              client[x].epoch \in Epochs /\ Stored(client[x].epoch)' \subseteq
                Stored(client[x].epoch)
        BY <2>5, <3>1 DEF Staged, Reading
      <4> QED
        BY <1>1, <2>1, <2>6, <3>1, <4>1 DEF Fits, QueryOK
    <3> QED
      BY <3>2, <3>3, <3>4, <3>5, <3>6
  <2>13. /\ epoch' \in Epochs /\ cached' \in Epochs \cup {None}
         /\ truth' \in [begun : Rows, acked : Rows, condemned : Rows, gone : Rows]
    BY <1>1, <1>4, <2>1 DEF Types
  <2>14. ASSUME NEW d \in Clients, d # c PROVE Apart(s, client[d]) /\ Apart(client[d], s)
    <3>1. Fits(client[d]) /\ Apart(old, client[d]) /\ Apart(client[d], old)
      BY <1>2, <2>14, ClientFacts
    <3>2. client[d].stmt = "insert" /\ client[d].at = "row" => client[d].keys \cap k = {}
      BY <1>3, <1>4, <1>6, <3>1 DEF Fits, InsertOK, Stored
    <3> QED
      BY <1>1, <2>2, <3>1, <3>2 DEF Apart
  <2> QED
    BY <1>1, <2>2, <2>3, <2>4, <2>7, <2>9, <2>10, <2>11, <2>12, <2>13, <2>14, OneSession
<1> QED
  BY <1>5, <1>6

-----------------------------------------------------------------------------
\* Statements that begin.  The others keep all but what their queries may or must see.
Kept(x) ==
  /\ client'[x].at = client[x].at /\ client'[x].stmt = client[x].stmt
  /\ client'[x].epoch = client[x].epoch /\ client'[x].keys = client[x].keys
  /\ client'[x].settled = client[x].settled /\ client'[x].scanned = client[x].scanned

\* What is left to show of such a step.
LEMMA ManySessions ==
  ASSUME Consistent, NEW c \in Clients, client' \in [Clients -> Sessions],
         Staged(client'[c]),
         \A x \in Clients : x # c => Kept(x),
         epoch' \in Epochs,
         UNCHANGED <<v2Rows, chunkMeta, chunkCols, stats, cached>>,
         truth' \in [begun : Rows, acked : Rows, condemned : Rows, gone : Rows],
         Told', StaleCache', Settled', Each',
         \A d \in Clients : d # c => /\ Apart(client[c], client[d])'
                                     /\ Apart(client[d], client[c])'
  PROVE  Consistent'
<1>1. Types'
  <2>1. \A x \in Clients : Staged(client'[x])
    BY DEF Consistent, Types, Staged, Kept
  <2> QED
    BY <2>1 DEF Consistent, Types, Staged
<1>2. Pairs'
  <2> SUFFICES ASSUME NEW x \in Clients, NEW y \in Clients, x # y
               PROVE  Apart(client[x], client[y])'
    BY DEF Pairs
  <2>1. CASE x = c \/ y = c
    BY <2>1
  <2>2. CASE x # c /\ y # c
    <3>1. Apart(client[x], client[y]) /\ Kept(x) /\ Kept(y)
      BY <2>2 DEF Consistent, Pairs
    <3> QED
      BY <3>1 DEF Apart, Kept
  <2> QED
    BY <2>1, <2>2
<1> QED
  BY <1>1, <1>2 DEF Consistent

\* What stays true of a store that does not change.
LEMMA StoreKept ==
  ASSUME UNCHANGED <<v2Rows, chunkCols>>
  PROVE  \A e : Stored(e)' = Stored(e)
  BY DEF Stored, InChunk

\* An INSERT takes a key no statement has used.
LEMMA BeginInsertOK ==
  ASSUME Consistent, NEW c \in Clients, NEW k \in RowKeys, BeginInsert(c, k)
  PROVE  Consistent'
<1>1. /\ k \notin truth.begun /\ Start(c, "insert", "row", {k})
      /\ truth' = [truth EXCEPT !.begun = @ \cup {k}]
      /\ UNCHANGED <<epoch, v2Rows, chunkMeta, chunkCols, stats, cached>>
  BY DEF BeginInsert, storeVars
<1>2. /\ Types /\ Told /\ {k} \in Rows /\ "insert" \in Stmts /\ "row" \in Places
      /\ epoch \in Epochs
  BY DEF Consistent, Types, Rows, Stmts, Places
<1>3. PICK s \in Sessions : Begun(s, c, "insert", "row", {k})
  BY <1>1, <1>2, StartFacts
<1>4. /\ s.at = "row" /\ s.stmt = "insert" /\ s.epoch = epoch /\ s.keys = {k}
      /\ client'[c] = s /\ client' \in [Clients -> Sessions]
      /\ client[c].stmt = "none" /\ client[c].at = "idle"
  BY <1>3 DEF Begun
<1>5. ASSUME NEW x \in Clients, x # c
      PROVE  /\ Kept(x) /\ client'[x].must = client[x].must
             /\ client'[x].may = client[x].may \cup {k}
  <2>1. client'[x] = [client[x] EXCEPT !.may = @ \cup {k}]
    BY <1>3, <1>5 DEF Begun
  <2>2. client[x] \in Sessions
    BY ClientFacts
  <2> QED
    BY <2>1, <2>2 DEF Kept, Sessions
<1>6. /\ truth' \in [begun : Rows, acked : Rows, condemned : Rows, gone : Rows]
      /\ truth'.begun = truth.begun \cup {k} /\ truth'.acked = truth.acked
      /\ truth'.condemned = truth.condemned /\ truth'.gone = truth.gone
  <2>1. truth \in [begun : Rows, acked : Rows, condemned : Rows, gone : Rows]
    BY <1>2 DEF Types
  <2>2. truth.begun \cup {k} \in Rows
    BY <2>1 DEF Rows
  <2> QED
    BY <1>1, <2>1, <2>2
<1>7. \A e : Stored(e)' = Stored(e)
  BY <1>1, StoreKept
<1>8. Surely' = Surely /\ Possibly' = Possibly \cup {k}
  BY <1>1, <1>2, <1>6 DEF Surely, Possibly, Told
<1>9. Told'
  <2>1. Stored(epoch)' = Stored(epoch) /\ Stored(cached)' = Stored(cached)
    BY <1>1 DEF Stored, InChunk
  <2> QED
    BY <1>1, <1>2, <1>6, <1>7, <1>8, <2>1 DEF Told
<1>10. StaleCache'
  BY <1>1, <1>4, <1>5 DEF Consistent, StaleCache, Invalidating, Kept
<1>11. Settled'
  <2>1. ~Pending(client[c])
    BY <1>4 DEF Pending, Refresh, Rewriting
  <2> QED
    BY <1>1, <1>5, <2>1 DEF Consistent, Settled, Pending, Matching, Kept
<1>12. Staged(client'[c])
  BY <1>2, <1>4, StageSets DEF Staged
<1>13. Each'
  <2> SUFFICES ASSUME NEW x \in Clients PROVE Fits(client[x])'
    BY DEF Each, Fits
  <2>1. CASE x = c
    <3>1. InsertOK(client[x])'
      BY <1>1, <1>2, <1>4, <1>6, <1>7, <2>1 DEF InsertOK, Told
    <3>2. DeleteOK(client[x])' /\ TruncateOK(client[x])' /\ RefreshOK(client[x])'
          /\ QueryOK(client[x])'
      BY <1>4, <2>1 DEF DeleteOK, TruncateOK, RefreshOK, QueryOK, Rewriting
    <3> QED
      BY <3>1, <3>2 DEF Fits
  <2>2. CASE x # c
    <3>1. /\ Fits(client[x]) /\ Kept(x) /\ client'[x].must = client[x].must
          /\ client'[x].may = client[x].may \cup {k}
      BY <1>5, <2>2, ClientFacts
    <3>2. InsertOK(client[x])'
      BY <1>1, <1>6, <1>7, <3>1 DEF Fits, InsertOK, Kept
    <3>3. DeleteOK(client[x])'
      BY <1>1, <1>6, <1>7, <3>1 DEF Fits, DeleteOK, Kept
    <3>4. TruncateOK(client[x])'
      BY <1>1, <1>6, <1>7, <3>1 DEF Fits, TruncateOK, Kept
    <3>5. RefreshOK(client[x])'
      BY <1>1, <3>1 DEF Fits, RefreshOK, Kept
    <3>6. QueryOK(client[x])'
      <4>1. Stored(client[x].epoch)' = Stored(client[x].epoch)
        BY <1>7, <3>1 DEF Kept
      <4> QED
        BY <1>1, <1>8, <3>1, <4>1 DEF Fits, QueryOK, Kept
    <3> QED
      BY <3>2, <3>3, <3>4, <3>5, <3>6 DEF Fits
  <2> QED
    BY <2>1, <2>2
<1>14. ASSUME NEW d \in Clients, d # c
       PROVE  Apart(client[c], client[d])' /\ Apart(client[d], client[c])'
  <2>1. Fits(client[d]) /\ Kept(d)
    BY <1>5, <1>14, ClientFacts
  <2>2. client[d].stmt \in {"insert", "delete"} => k \notin client[d].keys
    BY <1>1, <1>2, <2>1 DEF Fits, InsertOK, DeleteOK, Told
  <2> QED
    BY <1>4, <2>1, <2>2 DEF Apart, Kept
<1>15. epoch' \in Epochs /\ \A x \in Clients : x # c => Kept(x)
  BY <1>1, <1>2, <1>5
<1> QED
  BY <1>1, <1>4, <1>6, <1>9, <1>10, <1>11, <1>12, <1>13, <1>14, <1>15, ManySessions

\* A DELETE condemns its row, and queries under way need not answer it.
LEMMA BeginDeleteOK ==
  ASSUME Consistent, NEW c \in Clients, NEW k \in RowKeys, BeginDelete(c, k)
  PROVE  Consistent'
<1>1. /\ k \in truth.begun \ truth.condemned /\ Start(c, "delete", "row", {k})
      /\ truth' = [truth EXCEPT !.condemned = @ \cup {k}]
      /\ UNCHANGED <<epoch, v2Rows, chunkMeta, chunkCols, stats, cached>>
  BY DEF BeginDelete, storeVars
<1>2. /\ Types /\ Told /\ {k} \in Rows /\ "delete" \in Stmts /\ "row" \in Places
      /\ epoch \in Epochs
  BY DEF Consistent, Types, Rows, Stmts, Places
<1>3. PICK s \in Sessions : Begun(s, c, "delete", "row", {k})
  BY <1>1, <1>2, StartFacts
<1>4. /\ s.at = "row" /\ s.stmt = "delete" /\ s.epoch = epoch /\ s.keys = {k}
      /\ s.settled = {k} \cap truth.acked
      /\ client'[c] = s /\ client' \in [Clients -> Sessions]
      /\ client[c].stmt = "none" /\ client[c].at = "idle"
  BY <1>3 DEF Begun
<1>5. ASSUME NEW x \in Clients, x # c
      PROVE  /\ Kept(x) /\ client'[x].must = client[x].must \ {k}
             /\ client'[x].may = client[x].may
  <2>1. client'[x] = [client[x] EXCEPT !.must = @ \ {k}]
    BY <1>3, <1>5 DEF Begun
  <2>2. client[x] \in Sessions
    BY ClientFacts
  <2> QED
    BY <2>1, <2>2 DEF Kept, Sessions
<1>6. /\ truth' \in [begun : Rows, acked : Rows, condemned : Rows, gone : Rows]
      /\ truth'.begun = truth.begun /\ truth'.acked = truth.acked
      /\ truth'.condemned = truth.condemned \cup {k} /\ truth'.gone = truth.gone
  <2>1. truth \in [begun : Rows, acked : Rows, condemned : Rows, gone : Rows]
    BY <1>2 DEF Types
  <2>2. truth.condemned \cup {k} \in Rows
    BY <2>1 DEF Rows
  <2> QED
    BY <1>1, <2>1, <2>2
<1>7. \A e : Stored(e)' = Stored(e)
  BY <1>1, StoreKept
<1>8. Surely' = Surely \ {k} /\ Possibly' = Possibly
  BY <1>6 DEF Surely, Possibly
<1>9. Told'
  <2>1. Stored(epoch)' = Stored(epoch) /\ Stored(cached)' = Stored(cached)
    BY <1>1 DEF Stored, InChunk
  <2> QED
    BY <1>1, <1>2, <1>6, <1>7, <1>8, <2>1 DEF Told
<1>10. StaleCache'
  BY <1>1, <1>4, <1>5 DEF Consistent, StaleCache, Invalidating, Kept
<1>11. Settled'
  <2>1. ~Pending(client[c])
    BY <1>4 DEF Pending, Refresh, Rewriting
  <2> QED
    BY <1>1, <1>5, <2>1 DEF Consistent, Settled, Pending, Matching, Kept
<1>12. Staged(client'[c])
  BY <1>2, <1>4, StageSets DEF Staged
<1>13. Each'
  <2> SUFFICES ASSUME NEW x \in Clients PROVE Fits(client[x])'
    BY DEF Each, Fits
  <2>1. CASE x = c
    <3>1. DeleteOK(client[x])'
      <4>1. k \notin truth.gone /\ (\A e \in Epochs : e < epoch => k \notin Stored(e))
        BY <1>1, <1>2 DEF Told
      <4>2. s.settled \in {{}, {k}} /\ s.settled \subseteq truth.acked
        BY <1>4
      <4>3. s.settled \subseteq v2Rows[epoch]
        BY <1>1, <1>2, <1>4 DEF Told, Surely
      <4> QED
        BY <1>1, <1>4, <1>6, <1>7, <2>1, <4>1, <4>2, <4>3 DEF DeleteOK
    <3>2. InsertOK(client[x])' /\ TruncateOK(client[x])' /\ RefreshOK(client[x])'
          /\ QueryOK(client[x])'
      BY <1>4, <2>1 DEF InsertOK, TruncateOK, RefreshOK, QueryOK, Rewriting
    <3> QED
      BY <3>1, <3>2 DEF Fits
  <2>2. CASE x # c
    <3>1. /\ Fits(client[x]) /\ Kept(x) /\ client'[x].must = client[x].must \ {k}
          /\ client'[x].may = client[x].may
      BY <1>5, <2>2, ClientFacts
    <3>2. InsertOK(client[x])'
      BY <1>1, <1>6, <1>7, <3>1 DEF Fits, InsertOK, Kept
    <3>3. DeleteOK(client[x])'
      BY <1>1, <1>6, <1>7, <3>1 DEF Fits, DeleteOK, Kept
    <3>4. TruncateOK(client[x])'
      BY <1>1, <1>6, <1>7, <3>1 DEF Fits, TruncateOK, Kept
    <3>5. RefreshOK(client[x])'
      BY <1>1, <3>1 DEF Fits, RefreshOK, Kept
    <3>6. QueryOK(client[x])'
      <4>1. Stored(client[x].epoch)' = Stored(client[x].epoch)
        BY <1>7, <3>1 DEF Kept
      <4> QED
        BY <1>1, <1>8, <3>1, <4>1 DEF Fits, QueryOK, Kept
    <3> QED
      BY <3>2, <3>3, <3>4, <3>5, <3>6 DEF Fits
  <2> QED
    BY <2>1, <2>2
<1>14. ASSUME NEW d \in Clients, d # c
       PROVE  Apart(client[c], client[d])' /\ Apart(client[d], client[c])'
  <2>1. Fits(client[d]) /\ Kept(d)
    BY <1>5, <1>14, ClientFacts
  <2>2. /\ client[d].stmt = "delete" => k \notin client[d].keys
        /\ client[d].stmt = "truncate" => k \notin client[d].settled
    BY <1>1, <1>2, <2>1 DEF Fits, TruncateOK, DeleteOK, Told
  <2> QED
    BY <1>4, <2>1, <2>2 DEF Apart, Kept
<1>15. epoch' \in Epochs /\ \A x \in Clients : x # c => Kept(x)
  BY <1>1, <1>2, <1>5
<1> QED
  BY <1>1, <1>4, <1>6, <1>9, <1>10, <1>11, <1>12, <1>13, <1>14, <1>15, ManySessions

\* An epoch that has not begun is empty.
LEMMA FutureEmpty ==
  ASSUME Consistent, NEW e \in Epochs, e > epoch
  PROVE  Stored(e) = {}
  BY DEF Consistent, Told, Stored, InChunk

\* A TRUNCATE condemns every row.
LEMMA BeginTruncateOK ==
  ASSUME Consistent, NEW c \in Clients, BeginTruncate(c)
  PROVE  Consistent'
<1> DEFINE k == truth.begun
<1>1. /\ Start(c, "truncate", "bump", k)
      /\ truth' = [truth EXCEPT !.condemned = truth.begun]
      /\ UNCHANGED <<epoch, v2Rows, chunkMeta, chunkCols, stats, cached>>
  BY DEF BeginTruncate, storeVars
<1>2. /\ Types /\ Told /\ k \in Rows /\ "truncate" \in Stmts /\ "bump" \in Places
      /\ epoch \in Epochs
  BY DEF Consistent, Types, Stmts, Places
<1>3. PICK s \in Sessions : Begun(s, c, "truncate", "bump", k)
  BY <1>1, <1>2, StartFacts
<1>4. /\ s.at = "bump" /\ s.stmt = "truncate" /\ s.epoch = epoch
      /\ s.settled = k \cap truth.acked
      /\ client'[c] = s /\ client' \in [Clients -> Sessions]
      /\ client[c].stmt = "none" /\ client[c].at = "idle"
  BY <1>3 DEF Begun
<1>5. ASSUME NEW x \in Clients, x # c
      PROVE  /\ Kept(x) /\ client'[x].must = client[x].must \ k
             /\ client'[x].may = client[x].may
  <2>1. client'[x] = [client[x] EXCEPT !.must = @ \ k]
    BY <1>3, <1>5 DEF Begun
  <2>2. client[x] \in Sessions
    BY ClientFacts
  <2> QED
    BY <2>1, <2>2 DEF Kept, Sessions
<1>6. /\ truth' \in [begun : Rows, acked : Rows, condemned : Rows, gone : Rows]
      /\ truth'.begun = truth.begun /\ truth'.acked = truth.acked
      /\ truth'.condemned = truth.begun /\ truth'.gone = truth.gone
  <2>1. truth \in [begun : Rows, acked : Rows, condemned : Rows, gone : Rows]
    BY <1>2 DEF Types
  <2> QED
    BY <1>1, <2>1
<1>7. \A e : Stored(e)' = Stored(e)
  BY <1>1, StoreKept
<1>8. Surely' = {} /\ Possibly' = Possibly
  BY <1>2, <1>6 DEF Surely, Possibly, Told
<1>9. Told'
  <2>1. Stored(epoch)' = Stored(epoch) /\ Stored(cached)' = Stored(cached)
    BY <1>1 DEF Stored, InChunk
  <2> QED
    BY <1>1, <1>2, <1>6, <1>7, <1>8, <2>1 DEF Told
<1>10. StaleCache'
  BY <1>1, <1>4, <1>5 DEF Consistent, StaleCache, Invalidating, Kept
<1>11. Settled'
  <2>1. ~Pending(client[c])
    BY <1>4 DEF Pending, Refresh, Rewriting
  <2> QED
    BY <1>1, <1>5, <2>1 DEF Consistent, Settled, Pending, Matching, Kept
<1>12. Staged(client'[c])
  BY <1>2, <1>4, StageSets DEF Staged
<1>13. Each'
  <2> SUFFICES ASSUME NEW x \in Clients PROVE Fits(client[x])'
    BY DEF Each, Fits
  <2>1. CASE x = c
    <3>1. TruncateOK(client[x])'
      <4>1. \A e \in Epochs : e > epoch => Stored(e) = {}
        BY FutureEmpty
      <4>2. epoch <= epoch
        BY <1>2, EpochNumbers, EqLeq
      <4> QED
        BY <1>1, <1>4, <1>6, <1>7, <2>1, <4>1, <4>2 DEF TruncateOK, Cleaning
    <3>2. InsertOK(client[x])' /\ DeleteOK(client[x])' /\ RefreshOK(client[x])'
          /\ QueryOK(client[x])'
      BY <1>4, <2>1 DEF InsertOK, DeleteOK, RefreshOK, QueryOK, Rewriting
    <3> QED
      BY <3>1, <3>2 DEF Fits
  <2>2. CASE x # c
    <3>1. /\ Fits(client[x]) /\ Kept(x) /\ client'[x].must = client[x].must \ k
          /\ client'[x].may = client[x].may
      BY <1>5, <2>2, ClientFacts
    <3>2. InsertOK(client[x])'
      BY <1>1, <1>2, <1>6, <1>7, <3>1 DEF Fits, InsertOK, Kept, Told
    <3>3. DeleteOK(client[x])'
      BY <1>1, <1>2, <1>6, <1>7, <3>1 DEF Fits, DeleteOK, Kept, Told
    <3>4. TruncateOK(client[x])'
      BY <1>1, <1>2, <1>6, <1>7, <3>1 DEF Fits, TruncateOK, Kept, Told
    <3>5. RefreshOK(client[x])'
      BY <1>1, <3>1 DEF Fits, RefreshOK, Kept
    <3>6. QueryOK(client[x])'
      <4>1. Stored(client[x].epoch)' = Stored(client[x].epoch)
        BY <1>7, <3>1 DEF Kept
      <4>2. client[x].stmt = "query" => client'[x].must = {}
        BY <1>2, <3>1 DEF Fits, QueryOK, Surely, Told
      <4> QED
        BY <1>1, <1>8, <3>1, <4>1, <4>2 DEF Fits, QueryOK, Kept
    <3> QED
      BY <3>2, <3>3, <3>4, <3>5, <3>6 DEF Fits
  <2> QED
    BY <2>1, <2>2
<1>14. ASSUME NEW d \in Clients, d # c
       PROVE  Apart(client[c], client[d])' /\ Apart(client[d], client[c])'
  BY <1>4 DEF Apart
<1>15. epoch' \in Epochs /\ \A x \in Clients : x # c => Kept(x)
  BY <1>1, <1>2, <1>5
<1> QED
  BY <1>1, <1>4, <1>6, <1>9, <1>10, <1>11, <1>12, <1>13, <1>14, <1>15, ManySessions

LEMMA PlannedNumbers == \A e \in Planned : e \in Nat
<1> SUFFICES ASSUME NEW e \in Epochs \cup {0} PROVE e \in Nat
  BY DEF Planned
<1>1. CASE e \in Epochs
  BY <1>1, EpochNumbers
<1>2. CASE e = 0
  BY <1>2
<1> QED
  BY <1>1, <1>2

\* Arithmetic of epochs.
LEMMA Successor ==
  ASSUME NEW n \in Nat, NEW m \in Nat
  PROVE  /\ n < n + 1 /\ n <= n + 1 /\ n + 1 > n /\ n + 1 \in Nat /\ 1 <= n + 1
         /\ m > n + 1 => m > n
         /\ m <= n => m <= n + 1 /\ m < n + 1
         /\ n < m + 1 => n + 1 <= m + 1
  OBVIOUS

\* The new epoch is empty, no row statement is under way, and every row is condemned.
LEMMA BumpEpochOK ==
  ASSUME Consistent, NEW c \in Clients, BumpEpoch(c),
         \A x \in Clients : client[x].stmt \notin {"insert", "delete"}
  PROVE  Consistent'
<1> DEFINE old == client[c]
<1>1. /\ old.at = "bump" /\ epoch < MaxTruncates + 1 /\ epoch' = epoch + 1
      /\ client' = [x \in Clients |->
           IF x = c THEN [client[x] EXCEPT !.at = "invalidate", !.epoch = epoch]
           ELSE [client[x] EXCEPT !.must = {}]]
      /\ truth' = [truth EXCEPT !.condemned = truth.begun]
      /\ UNCHANGED <<v2Rows, chunkMeta, chunkCols, stats, cached>>
  BY DEF BumpEpoch, At
<1>2. /\ Types /\ Told /\ epoch \in Epochs /\ epoch \in Nat /\ epoch + 1 \in Epochs
      /\ epoch \in Planned /\ "invalidate" \in Places /\ {} \in Rows
  <2>1. Types /\ Told /\ epoch \in Epochs /\ "invalidate" \in Places /\ {} \in Rows
    BY DEF Consistent, Types, Places, Rows
  <2>2. epoch \in Nat /\ epoch \in Planned
    BY <2>1, EpochNumbers DEF Planned
  <2>3. epoch + 1 \in Epochs
    <3>1. epoch < MaxTruncates + 1
      BY <1>1
    <3>2. epoch + 1 \in Nat /\ 1 <= epoch + 1 /\ epoch + 1 <= MaxTruncates + 1
      BY <2>2, <3>1, TruncatesAssumption, Successor
    <3> QED
      BY <3>2, TruncatesAssumption DEF Epochs
  <2> QED
    BY <2>1, <2>2, <2>3
<1>3. /\ old \in Sessions /\ Fits(old) /\ Staged(old) /\ old.stmt = "truncate"
  BY <1>1, ClientFacts, StmtAt
<1>4. /\ client'[c] \in Sessions /\ client'[c].at = "invalidate" /\ client'[c].epoch = epoch
      /\ client'[c].stmt = "truncate" /\ client'[c].settled = old.settled
  <2>1. client'[c] = [old EXCEPT !.at = "invalidate", !.epoch = epoch]
    BY <1>1
  <2> QED
    BY <1>2, <1>3, <2>1 DEF Sessions
<1>5. ASSUME NEW x \in Clients, x # c
      PROVE  /\ Kept(x) /\ client'[x].must = {} /\ client'[x].may = client[x].may
             /\ client'[x] \in Sessions
  <2>1. client'[x] = [client[x] EXCEPT !.must = {}]
    BY <1>1, <1>5
  <2>2. client[x] \in Sessions
    BY ClientFacts
  <2> QED
    BY <1>2, <2>1, <2>2 DEF Kept, Sessions
<1>6. client' \in [Clients -> Sessions]
  <2>1. \A x \in Clients : client'[x] \in Sessions
    BY <1>4, <1>5
  <2>2. client' = [x \in Clients |-> client'[x]]
    BY <1>1
  <2> QED
    BY <2>1, <2>2
<1>7. /\ truth' \in [begun : Rows, acked : Rows, condemned : Rows, gone : Rows]
      /\ truth'.begun = truth.begun /\ truth'.acked = truth.acked
      /\ truth'.condemned = truth.begun /\ truth'.gone = truth.gone
  <2>1. truth \in [begun : Rows, acked : Rows, condemned : Rows, gone : Rows]
    BY <1>2 DEF Types
  <2> QED
    BY <1>1, <2>1
<1>8. \A e : Stored(e)' = Stored(e)
  BY <1>1, StoreKept
<1>9. Surely' = {} /\ Possibly' = Possibly
  BY <1>2, <1>7 DEF Surely, Possibly, Told
<1>10. \A e \in Epochs : e > epoch' => e > epoch
  <2> SUFFICES ASSUME NEW e \in Epochs, e > epoch' PROVE e > epoch
    OBVIOUS
  <2>1. e \in Nat /\ e > epoch + 1
    BY <1>1, EpochNumbers
  <2> QED
    BY <1>2, <2>1, Successor
<1>11. Stored(epoch + 1) = {} /\ epoch + 1 > epoch
  <2>1. epoch + 1 > epoch
    BY <1>2, Successor
  <2> QED
    BY <1>2, <2>1, FutureEmpty
<1>12. Told'
  <2>1. Stored(epoch)' = {}
    BY <1>1, <1>8, <1>11
  <2>2. cached # None => cached <= epoch' /\ Stored(cached)' = Stored(cached)
    <3> SUFFICES ASSUME cached # None
                 PROVE  cached <= epoch' /\ Stored(cached)' = Stored(cached)
      OBVIOUS
    <3>1. cached \in Epochs /\ cached <= epoch
      BY <1>2 DEF Types, Told
    <3>2. cached \in Nat
      BY <3>1, EpochNumbers
    <3>3. cached <= epoch'
      BY <1>1, <1>2, <3>1, <3>2, Successor
    <3>4. Stored(cached)' = Stored(cached)
      BY <1>1 DEF Stored, InChunk
    <3> QED
      BY <3>3, <3>4
  <2>3. \A e \in Epochs :
          /\ Stored(e)' \subseteq truth'.begun
          /\ e < epoch' => Stored(e)' \subseteq truth'.condemned
          /\ e > epoch' => /\ v2Rows'[e] = {} /\ chunkMeta'[e] = None
                           /\ chunkCols'[e] = None /\ stats'[e] = None
    BY <1>1, <1>2, <1>7, <1>8, <1>10 DEF Told
  <2>4. /\ truth'.gone \subseteq truth'.acked \cap truth'.condemned
        /\ truth'.acked \cup truth'.condemned \subseteq truth'.begun
    BY <1>2, <1>7 DEF Told
  <2> QED
    BY <1>1, <1>2, <1>7, <1>9, <2>1, <2>2, <2>3, <2>4 DEF Told
<1>13. StaleCache'
  <2>1. Invalidating(client[c])'
    BY <1>4 DEF Invalidating
  <2> QED
    BY <2>1 DEF StaleCache
<1>14. Settled'
  <2>1. /\ v2Rows[epoch + 1] = {} /\ chunkMeta[epoch + 1] = None
        /\ chunkCols[epoch + 1] = None /\ stats[epoch + 1] = None
    BY <1>2, <1>11 DEF Told
  <2>2. Matching'
    BY <1>1, <2>1 DEF Matching
  <2> QED
    BY <2>2 DEF Settled
<1>15. Staged(client'[c])
  BY <1>2, <1>4, StageSets DEF Staged
<1>16. Each'
  <2> SUFFICES ASSUME NEW x \in Clients PROVE Fits(client[x])'
    BY DEF Each, Fits
  <2>1. CASE x = c
    <3>1. TruncateOK(client[x])'
      <4>1. \A e \in Epochs : e > epoch => Stored(e) = {}
        BY FutureEmpty
      <4>2. epoch <= epoch' /\ epoch < epoch'
        BY <1>1, <1>2, Successor
      <4>3. old.settled \subseteq truth.acked /\ truth.acked \subseteq truth.begun
        BY <1>2, <1>3 DEF Fits, TruncateOK, Told
      <4> QED
        BY <1>4, <1>7, <1>8, <2>1, <4>1, <4>2, <4>3 DEF TruncateOK, Cleaning
    <3>2. InsertOK(client[x])' /\ DeleteOK(client[x])' /\ RefreshOK(client[x])'
          /\ QueryOK(client[x])'
      BY <1>4, <2>1 DEF InsertOK, DeleteOK, RefreshOK, QueryOK, Rewriting
    <3> QED
      BY <3>1, <3>2 DEF Fits
  <2>2. CASE x # c
    <3>1. /\ Fits(client[x]) /\ Staged(client[x]) /\ Kept(x) /\ client'[x].must = {}
          /\ client'[x].may = client[x].may /\ client[x] \in Sessions
      BY <1>5, <2>2, ClientFacts
    <3>2. InsertOK(client[x])' /\ DeleteOK(client[x])'
      BY <3>1 DEF InsertOK, DeleteOK, Kept
    <3>3. client[x].epoch \in Nat
      <4>1. client[x].epoch \in Planned
        BY <3>1 DEF Sessions
      <4> QED
        BY <4>1, PlannedNumbers
    <3>4. client[x].epoch <= epoch => client[x].epoch <= epoch' /\ client[x].epoch < epoch'
      BY <1>1, <1>2, <3>3, Successor
    <3>5. TruncateOK(client[x])'
      BY <1>1, <1>2, <1>7, <1>8, <3>1, <3>4 DEF Fits, TruncateOK, Kept, Told
    <3>6. RefreshOK(client[x])'
      BY <1>1, <3>1, <3>4 DEF Fits, RefreshOK, Kept
    <3>7. QueryOK(client[x])'
      <4>1. Stored(client[x].epoch)' = Stored(client[x].epoch)
        BY <1>8, <3>1 DEF Kept
      <4> QED
        BY <1>9, <3>1, <3>4, <4>1 DEF Fits, QueryOK, Kept
    <3> QED
      BY <3>2, <3>5, <3>6, <3>7 DEF Fits
  <2> QED
    BY <2>1, <2>2
<1>17. ASSUME NEW d \in Clients, d # c
       PROVE  Apart(client[c], client[d])' /\ Apart(client[d], client[c])'
  <2>1. client'[d].stmt \notin {"insert", "delete"}
    BY <1>5, <1>17 DEF Kept
  <2> QED
    BY <1>4, <2>1 DEF Apart
<1>18. epoch' \in Epochs /\ \A x \in Clients : x # c => Kept(x)
  BY <1>1, <1>2, <1>5
<1> QED
  BY <1>1, <1>6, <1>7, <1>12, <1>13, <1>14, <1>15, <1>16, <1>17, <1>18, ManySessions

-----------------------------------------------------------------------------
\* The empty table is consistent.
LEMMA InitOK == EngineInit => Inv
<1> SUFFICES ASSUME EngineInit PROVE Consistent
  BY DEF Inv, Consistent
<1>1. /\ epoch = 1 /\ cached = None /\ truth = NoRows
      /\ v2Rows = [e \in Epochs |-> {}] /\ chunkMeta = [e \in Epochs |-> None]
      /\ chunkCols = [e \in Epochs |-> None] /\ stats = [e \in Epochs |-> None]
      /\ client = [c \in Clients |-> Quiet]
  BY DEF EngineInit
<1>2. 1 \in Epochs /\ {} \in Rows /\ None \in Chunks
  BY TruncatesAssumption DEF Epochs, Rows, Chunks
<1>3. \A c \in Clients : client[c] = Quiet
  BY <1>1
<1>4. truth.begun = {} /\ truth.acked = {} /\ truth.condemned = {} /\ truth.gone = {}
      /\ truth \in [begun : Rows, acked : Rows, condemned : Rows, gone : Rows]
  BY <1>1, <1>2 DEF NoRows
<1>5. \A e \in Epochs : v2Rows[e] = {} /\ chunkMeta[e] = None /\ chunkCols[e] = None
                        /\ stats[e] = None /\ Stored(e) = {}
  BY <1>1 DEF Stored, InChunk
<1>6. Types
  <2>1. client \in [Clients -> Sessions]
    BY <1>1, QuietFacts
  <2>2. \A c \in Clients : Staged(client[c])
    BY <1>3, QuietFacts
  <2>3. /\ v2Rows \in [Epochs -> Rows] /\ chunkMeta \in [Epochs -> Chunks]
        /\ chunkCols \in [Epochs -> Chunks] /\ stats \in [Epochs -> Chunks]
    BY <1>1, <1>2
  <2> QED
    BY <1>1, <1>2, <1>4, <2>1, <2>2, <2>3 DEF Types, Staged
<1>7. Told
  BY <1>1, <1>2, <1>4, <1>5 DEF Told, Surely
<1>8. Each
  BY <1>3, QuietFits DEF Each, Fits
<1>9. Pairs
  BY <1>3, QuietFits DEF Pairs
<1>10. StaleCache
  BY <1>1 DEF StaleCache
<1>11. Settled
  BY <1>1, <1>2, <1>5 DEF Settled, Matching
<1> QED
  BY <1>6, <1>7, <1>8, <1>9, <1>10, <1>11 DEF Consistent

\* Every step but a race keeps the state consistent.
LEMMA NextOK == Inv /\ [EngineNext]_engineVars => Inv'
<1> SUFFICES ASSUME Inv, [EngineNext]_engineVars, ~raced' PROVE Consistent'
  BY DEF Inv, Consistent
<1>1. CASE UNCHANGED engineVars
  <2>1. Consistent /\ UNCHANGED <<epoch, v2Rows, chunkMeta, chunkCols, stats, cached,
          client, truth>>
    BY <1>1 DEF engineVars, Inv, Consistent
  <2>2. \A e : Stored(e)' = Stored(e)
    BY <2>1, StoreKept
  <2>3. Types' /\ StaleCache' /\ Settled' /\ Pairs'
    BY <2>1 DEF Consistent, Types, StaleCache, Settled, Pairs, Apart, Pending, Matching,
       Invalidating
  <2>4. Told'
    <3>1. /\ Stored(epoch)' = Stored(epoch) /\ Stored(cached)' = Stored(cached)
          /\ Surely' = Surely
      BY <2>1 DEF Stored, InChunk, Surely
    <3> QED
      BY <2>1, <2>2, <3>1 DEF Consistent, Told
  <2>5. Each'
    <3> SUFFICES ASSUME NEW x \in Clients PROVE Fits(client[x])'
      BY DEF Each, Fits
    <3>1. Fits(client[x]) /\ client'[x] = client[x]
      BY <2>1, ClientFacts
    <3>2. InsertOK(client[x])' /\ DeleteOK(client[x])' /\ TruncateOK(client[x])'
      BY <2>1, <2>2, <3>1 DEF Fits, InsertOK, DeleteOK, TruncateOK
    <3>3. RefreshOK(client[x])'
      BY <2>1, <3>1 DEF Fits, RefreshOK
    <3>4. QueryOK(client[x])'
      <4>1. Stored(client[x].epoch)' = Stored(client[x].epoch)
        BY <2>2, <3>1
      <4> QED
        BY <2>1, <3>1, <4>1 DEF Fits, QueryOK, Surely, Possibly
    <3> QED
      BY <3>2, <3>3, <3>4 DEF Fits
  <2> QED
    BY <2>3, <2>4, <2>5 DEF Consistent
<1>2. ASSUME NEW c \in Clients,
             \/ \E k \in RowKeys : BeginInsert(c, k) \/ BeginDelete(c, k)
             \/ BeginAnalyze(c)
             \/ RefreshScan(c) \/ RefreshDropMeta(c) \/ RefreshDropColumns(c)
             \/ RefreshDropStats(c) \/ RefreshPut(c) \/ StoreSchema(c)
             \/ BeginTruncate(c) \/ Invalidate(c)
             \/ TruncateMeta(c) \/ TruncateColumns(c) \/ TruncateStats(c)
             \/ BeginQuery(c) \/ FindProvider(c) \/ BuildProvider(c)
             \/ ScanRows(c) \/ ScanChunkMeta(c) \/ ReadColumns(c) \/ Respond(c)
      PROVE  Consistent'
  <2>1. raced' = raced
    BY <1>2 DEF BeginInsert, BeginDelete, BeginAnalyze, RefreshScan, RefreshDropMeta,
       RefreshDropColumns, RefreshDropStats, RefreshPut, StoreSchema, BeginTruncate,
       Invalidate,
       TruncateMeta, TruncateColumns, TruncateStats, BeginQuery, FindProvider,
       BuildProvider,
       ScanRows, ScanChunkMeta, ReadColumns, Respond, DropMeta, DropColumns
  <2>2. Consistent
    BY <2>1 DEF Inv, Consistent
  <2> QED
    BY <1>2, <2>2, BeginInsertOK, BeginDeleteOK, BeginAnalyzeOK, RefreshScanOK,
       RefreshDropsOK,
       RefreshPutOK, StoreSchemaOK, BeginTruncateOK, InvalidateOK, TruncateDropsOK,
       TruncateStatsOK, BeginQueryOK, FindProviderOK, BuildProviderOK, ScanRowsOK,
       ScanChunkMetaOK, ReadColumnsOK, RespondOK
\* The steps that may be races.
<1>3. ASSUME NEW c \in Clients, WriteRow(c) PROVE Consistent'
  <2>1. raced' = (raced \/ RefreshIsStale(c)
                  \/ \E x \in Clients : client[x].stmt = "truncate" /\ At(x, "invalidate"))
    BY <1>3 DEF WriteRow
  <2>2. Consistent /\ ~RefreshIsStale(c)
    BY <2>1 DEF Inv, Consistent
  <2>3. \A x \in Clients : ~Invalidating(client[x])
    BY <2>1 DEF Invalidating, At
  <2> QED
    BY <1>3, <2>2, <2>3, WriteRowOK
<1>4. ASSUME NEW c \in Clients, DeleteRow(c) PROVE Consistent'
  <2>1. CASE client[c].keys \subseteq v2Rows[client[c].epoch]
    <3>1. raced' = (raced \/ RefreshIsStale(c))
      BY <1>4, <2>1 DEF DeleteRow
    <3>2. Consistent /\ ~RefreshIsStale(c)
      BY <3>1 DEF Inv, Consistent
    <3> QED
      BY <1>4, <3>2, DeleteRowOK
  <2>2. CASE ~(client[c].keys \subseteq v2Rows[client[c].epoch])
    <3>1. raced' = raced
      BY <1>4, <2>2 DEF DeleteRow
    <3>2. Consistent
      BY <3>1 DEF Inv, Consistent
    <3> QED
      BY <1>4, <2>2, <3>2, DeleteRowOK
  <2> QED
    BY <2>1, <2>2
<1>5. ASSUME NEW c \in Clients, BumpEpoch(c) PROVE Consistent'
  <2>1. raced' = (raced \/ \E x \in Clients : client[x].stmt \in {"insert", "delete"})
    BY <1>5 DEF BumpEpoch
  <2>2. Consistent /\ \A x \in Clients : client[x].stmt \notin {"insert", "delete"}
    BY <2>1 DEF Inv, Consistent
  <2> QED
    BY <1>5, <2>2, BumpEpochOK
<1>6. ASSUME NEW c \in Clients, CacheProvider(c) PROVE Consistent'
  <2>1. raced' = (raced \/ client[c].epoch # epoch)
    BY <1>6 DEF CacheProvider
  <2>2. Consistent /\ client[c].epoch = epoch
    BY <2>1 DEF Inv, Consistent
  <2> QED
    BY <1>6, <2>2, CacheProviderOK
<1> QED
  BY <1>1, <1>2, <1>3, <1>4, <1>5, <1>6 DEF EngineNext

\* Until a race, every behaviour of the engine is consistent.
THEOREM InvHolds == EngineSpec => []Inv
  BY InitOK, NextOK, PTL DEF EngineSpec

\* QueriesSeeTheTable for every number of clients, rows and TRUNCATEs: without a race a
\* SELECT through a new or a cached provider answers every row that was acknowledged
\* before it began and is not being removed, and none that never was or is gone.
THEOREM AnswersAreTheTable == EngineSpec => []QueriesSeeTheTable
<1>1. Inv => QueriesSeeTheTable
  <2> SUFFICES ASSUME Inv, ~raced, NEW c \in Clients, client[c].at = "result"
               PROVE  /\ client[c].must \subseteq client[c].scanned
                      /\ client[c].scanned \subseteq client[c].may
    BY DEF QueriesSeeTheTable
  <2>1. Consistent
    BY DEF Inv, Consistent
  <2>2. client[c].stmt = "query" /\ Fits(client[c])
    BY <2>1, ClientFacts, StmtAt
  <2> QED
    BY <2>2 DEF Fits, QueryOK
<1> QED
  BY <1>1, InvHolds, PTL

\* ChunksMatchRows for every number of clients, rows and TRUNCATEs: without a race the
\* chunk and the statistics of the current epoch are those of its rows whenever no
\* statement is under way, whatever refreshes ran in between.
THEOREM ChunksAreTheRows == EngineSpec => []ChunksMatchRows
<1>1. Inv => ChunksMatchRows
  <2> SUFFICES ASSUME Inv, ~raced, \A c \in Clients : client[c].at = "idle"
               PROVE  Matching
    BY DEF ChunksMatchRows, Matching
  <2>1. \A x \in Clients : ~Pending(client[x])
    BY DEF Pending, Refresh, Rewriting
  <2> QED
    BY <2>1 DEF Inv, Consistent, Settled
<1> QED
  BY <1>1, InvHolds, PTL

=============================================================================
