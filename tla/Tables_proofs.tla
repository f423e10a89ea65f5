--------------------------- MODULE Tables_proofs ---------------------------
(***************************************************************************)
(* Proofs about the two tables a start-up brings into line with a file: that *)
(* of the gateways (GatewayTable), for any number of gateways, requests and   *)
(* start-ups, and that it implements OwnedTable; and that of the clients     *)
(* (ClientTable), for any number of clients, administrators and requests.   *)
(***************************************************************************)
EXTENDS GatewayTable, ClientTable, TLAPS

MaybeRows == Rows \cup {Nobody}
RequestSet == [pc : {"idle", "write"}, kind : {"", "update", "delete", "switch"},
               name : Gateways \cup {Nobody}, arg : Targets \cup BOOLEAN \cup {Nobody}]
SweepSet == [pc : {"off", "wait", "write"}, file : GatewayFiles \cup {<<>>},
             prune : BOOLEAN, rows : [Gateways -> MaybeRows] \cup {<<>>}]

\* What requests and reconciliations carry between their two steps.
Typed ==
    /\ row \in [Gateways -> MaybeRows]
    /\ holder \in Callers \cup Starts \cup {Nobody}
    /\ request \in [Callers -> RequestSet]
    /\ \A w \in Callers : request[w].pc = "write" =>
        /\ request[w].name \in Gateways
        /\ request[w].kind \in {"update", "delete", "switch"}
        /\ request[w].kind = "update" => request[w].arg \in Targets
        /\ request[w].kind = "switch" => request[w].arg \in BOOLEAN
    /\ sweep \in [Starts -> SweepSet]
    /\ \A b \in Starts :
        /\ sweep[b].pc # "off" => sweep[b].file \in GatewayFiles
        /\ sweep[b].pc = "write" => sweep[b].rows \in [Gateways -> MaybeRows]
    /\ requests \in 0..MaxRequests /\ sweeps \in 0..MaxSweeps /\ losses \in 0..MaxLosses
    /\ switched \subseteq Gateways

\* Whoever holds the lock is about to write.
HolderWorks ==
    /\ \A w \in Callers : holder = w => request[w].pc = "write" /\ request[w].kind # "switch"
    /\ \A b \in Starts : holder = b => sweep[b].pc = "write"

\* While nobody loses the lock, who is about to write under it holds it; the row
\* an administrator is about to write is still one of theirs, and a
\* reconciliation has read the rows as they are but for the switches.
Agrees(b) == \A n \in Gateways :
    /\ sweep[b].rows[n] = Nobody <=> row[n] = Nobody
    /\ row[n] # Nobody =>
        /\ sweep[b].rows[n].source = row[n].source
        /\ sweep[b].rows[n].target = row[n].target
        /\ row[n].source = Config => sweep[b].rows[n].enabled = row[n].enabled \/ n \in switched

LockHolds ==
    losses = 0 =>
        /\ \A w \in Callers : request[w].pc = "write" /\ request[w].kind # "switch" =>
            holder = w /\ MutableGateway(request[w].name)
        /\ \A b \in Starts : sweep[b].pc = "write" => holder = b /\ Agrees(b)

TableInv == Typed /\ HolderWorks /\ LockHolds /\ GatewaysFollowTheFile

-----------------------------------------------------------------------------
\* The invariant gives the type invariant of the runs.
LEMMA InvIsTyped == TableInv => GatewaysTypeOK
  BY DEF TableInv, Typed, HolderWorks, GatewaysTypeOK, MaybeRows, RequestSet, SweepSet

LEMMA InvInit == ASSUME GatewaysAssumption PROVE GatewaysInit => TableInv
  <1> SUFFICES ASSUME GatewaysInit PROVE TableInv
    OBVIOUS
  <1>1. NoRequest \in RequestSet /\ NoRequest.pc = "idle"
    BY DEF NoRequest, RequestSet
  <1>2. NoSweep \in SweepSet /\ NoSweep.pc = "off"
    BY DEF NoSweep, SweepSet
  <1>3. Typed
    BY <1>1, <1>2 DEF GatewaysInit, Typed, MaybeRows, GatewaysAssumption
  <1>4. HolderWorks /\ LockHolds
    BY <1>1, <1>2 DEF GatewaysInit, HolderWorks, LockHolds, GatewaysAssumption
  <1>5. DOMAIN latest = {}
    BY DEF GatewaysInit
  <1>6. GatewaysFollowTheFile
    BY <1>5 DEF GatewaysInit, GatewaysFollowTheFile, OfFile, Present
  <1> QED
    BY <1>3, <1>4, <1>6 DEF TableInv

-----------------------------------------------------------------------------
\* What a request or a reconciliation becomes is of its type.
LEMMA RequestEnds ==
  ASSUME Typed, NEW w \in Callers, Done(w)
  PROVE  /\ request' \in [Callers -> RequestSet]
         /\ request'[w].pc = "idle"
         /\ \A v \in Callers \ {w} : request'[v] = request[v]
  BY DEF Done, Typed, NoRequest, RequestSet

LEMMA SweepEnds ==
  ASSUME Typed, NEW b \in Starts, sweep' = [sweep EXCEPT ![b] = NoSweep]
  PROVE  /\ sweep' \in [Starts -> SweepSet]
         /\ sweep'[b].pc = "off"
         /\ \A c \in Starts \ {b} : sweep'[c] = sweep[c]
  BY DEF Typed, NoSweep, SweepSet

LEMMA FileRowsAreRows ==
  ASSUME GatewaysAssumption, NEW f \in GatewayFiles, NEW n \in DOMAIN f
  PROVE  /\ n \in Gateways /\ FileEntry(f, n) \in Rows /\ FileEntry(f, n) # Nobody
         /\ FileEntry(f, n).source = Config /\ FileEntry(f, n).target = f[n] /\ FileEntry(f, n).enabled = TRUE
  <1>1. n \in Gateways /\ f[n] \in Targets
    BY Zenon DEF GatewaysAssumption
  <1>2. \A t \in Targets : [source |-> Config, target |-> t, enabled |-> TRUE] \in Rows
    BY DEF Rows
  <1>3. FileEntry(f, n) \in Rows
    BY <1>1, <1>2 DEF FileEntry
  <1>4. Nobody \notin Rows
    BY DEF GatewaysAssumption
  <1>5. /\ FileEntry(f, n).source = Config /\ FileEntry(f, n).target = f[n]
        /\ FileEntry(f, n).enabled = TRUE
    BY Zenon DEF FileEntry
  <1> QED
    BY <1>1, <1>3, <1>4, <1>5

\* A row whose switch is set is the same row otherwise.
LEMMA SwitchedRow ==
  ASSUME NEW r \in Rows, NEW on \in BOOLEAN
  PROVE  /\ [r EXCEPT !.enabled = on] \in Rows
         /\ [r EXCEPT !.enabled = on].source = r.source
         /\ [r EXCEPT !.enabled = on].target = r.target
         /\ [r EXCEPT !.enabled = on].enabled = on
  <1>1. [r EXCEPT !.enabled = on] = [source |-> r.source, target |-> r.target, enabled |-> on]
    BY DEF Rows
  <1>2. r.source \in {Manual, Config} /\ r.target \in Targets
    BY DEF Rows
  <1> QED
    BY <1>1, <1>2 DEF Rows

LEMMA RetargetedRow ==
  ASSUME NEW r \in Rows, NEW t \in Targets
  PROVE  /\ [r EXCEPT !.target = t] \in Rows
         /\ [r EXCEPT !.target = t].source = r.source
  BY DEF Rows

\* What a reconciliation makes of a row is a row.
LEMMA SweptIsTyped ==
  ASSUME GatewaysAssumption, Typed, NEW b \in Starts, sweep[b].pc = "write", NEW n \in Gateways
  PROVE  Swept(b, n) \in MaybeRows
  <1>1. row[n] \in MaybeRows /\ sweep[b].file \in GatewayFiles
    BY DEF Typed
  <1>2. CASE n \in DOMAIN sweep[b].file
    BY <1>1, <1>2, FileRowsAreRows DEF Swept, MaybeRows
  <1>3. CASE n \notin DOMAIN sweep[b].file
    <2>1. StillOfFile(n) => [row[n] EXCEPT !.enabled = FALSE] \in Rows
      BY <1>1, SwitchedRow DEF StillOfFile, OfFile, Present, MaybeRows
    <2> QED
      BY <1>1, <1>3, <2>1 DEF Swept, MaybeRows
  <1> QED
    BY <1>2, <1>3

\* Every step keeps the variables well typed.
LEMMA TypedStep ==
  ASSUME GatewaysAssumption, Typed, [GatewaysNext]_gatewayVars
  PROVE  Typed'
  <1> USE DEF GatewaysAssumption, gatewayVars
  <1>1. ASSUME NEW w \in Callers, NEW n \in Gateways, NEW t \in Targets, CreateGateway(w, n, t) PROVE Typed'
    <2>1. [source |-> Manual, target |-> t, enabled |-> TRUE] \in MaybeRows
      BY DEF MaybeRows, Rows
    <2> QED
      BY <1>1, <2>1 DEF CreateGateway, Typed
  <1>2. ASSUME NEW w \in Callers, NEW n \in Gateways, NEW kind \in {"update", "delete", "switch"},
               NEW arg \in Targets \cup BOOLEAN \cup {Nobody},
               kind = "update" => arg \in Targets, kind = "switch" => arg \in BOOLEAN,
               AskOwner(w, kind, n, arg)
        PROVE  Typed'
    <2>1. [pc |-> "write", kind |-> kind, name |-> n, arg |-> arg] \in RequestSet
      BY DEF RequestSet
    <2> QED
      BY <1>2, <2>1 DEF AskOwner, Typed
  <1>3. ASSUME NEW w \in Callers, Update(w) PROVE Typed'
    <2>1. row' \in [Gateways -> MaybeRows]
      BY <1>3 DEF Update, Typed, Present, MaybeRows, Rows
    <2> QED
      BY <1>3, <2>1, RequestEnds DEF Update, Release, Typed
  <1>4. ASSUME NEW w \in Callers, DeleteGateway(w) PROVE Typed'
    <2>1. row' \in [Gateways -> MaybeRows]
      BY <1>4 DEF DeleteGateway, Typed, MaybeRows
    <2> QED
      BY <1>4, <2>1, RequestEnds DEF DeleteGateway, Release, Typed
  <1>5. ASSUME NEW w \in Callers, Switch(w) PROVE Typed'
    <2>1. row' \in [Gateways -> MaybeRows]
      <3>1. request[w].name \in Gateways /\ request[w].arg \in BOOLEAN
        BY <1>5 DEF Switch, Typed
      <3>2. row[request[w].name] \in Rows \/ ~Present(request[w].name)
        BY <3>1 DEF Typed, Present, MaybeRows
      <3> QED
        BY <1>5, <3>1, <3>2, SwitchedRow DEF Switch, Typed, MaybeRows
    <2>2. switched' \subseteq Gateways
      BY <1>5 DEF Switch, Typed
    <2> QED
      BY <1>5, <2>1, <2>2, RequestEnds DEF Switch, Typed
  <1>6. ASSUME NEW b \in Starts, NEW f \in GatewayFiles, NEW prune \in BOOLEAN, SweepStarts(b, f, prune)
        PROVE  Typed'
    <2> DEFINE begun == [NoSweep EXCEPT !.pc = "wait", !.file = f, !.prune = prune]
    <2>1. begun \in SweepSet /\ begun.pc = "wait" /\ begun.file = f
      BY DEF NoSweep, SweepSet
    <2>2. sweep' = sweep \/ sweep' = [sweep EXCEPT ![b] = begun]
      BY <1>6 DEF SweepStarts
    <2> HIDE DEF begun
    <2> QED
      BY <1>6, <2>1, <2>2 DEF SweepStarts, Typed
  <1>7. ASSUME NEW b \in Starts, SweepReads(b) PROVE Typed'
    <2>1. /\ sweep' \in [Starts -> SweepSet]
          /\ sweep'[b].file = sweep[b].file /\ sweep'[b].rows = row
          /\ \A c \in Starts \ {b} : sweep'[c] = sweep[c]
      BY <1>7 DEF SweepReads, Typed, SweepSet
    <2> QED
      BY <1>7, <2>1 DEF SweepReads, Typed
  <1>8. ASSUME NEW b \in Starts, SweepCommits(b) PROVE Typed'
    <2>1. row' \in [Gateways -> MaybeRows]
      BY <1>8, SweptIsTyped DEF SweepCommits
    <2> QED
      BY <1>8, <2>1, SweepEnds DEF SweepCommits, Release, Typed
  <1>9. ASSUME NEW b \in Starts, SweepFails(b) PROVE Typed'
    BY <1>9, SweepEnds DEF SweepFails, Release, Typed
  <1>10. CASE LockLost
    BY <1>10 DEF LockLost, Typed
  <1>11. CASE UNCHANGED gatewayVars
    BY <1>11 DEF Typed
  <1> QED
    BY <1>1, <1>2, <1>3, <1>4, <1>5, <1>6, <1>7, <1>8, <1>9, <1>10, <1>11 DEF GatewaysNext

-----------------------------------------------------------------------------
\* Whoever holds the lock goes on to write, or releases it.
LEMMA HolderStep ==
  ASSUME GatewaysAssumption, Typed, HolderWorks, [GatewaysNext]_gatewayVars
  PROVE  HolderWorks'
  <1> USE DEF GatewaysAssumption, gatewayVars, HolderWorks, Typed
  <1>1. ASSUME NEW w \in Callers, NEW n \in Gateways, NEW t \in Targets, CreateGateway(w, n, t) PROVE HolderWorks'
    BY <1>1 DEF CreateGateway
  <1>2. ASSUME NEW w \in Callers, NEW n \in Gateways, NEW kind \in {"update", "delete", "switch"},
               NEW arg, AskOwner(w, kind, n, arg)
        PROVE  HolderWorks'
    BY <1>2 DEF AskOwner
  <1>3. ASSUME NEW w \in Callers, Update(w) \/ DeleteGateway(w) \/ Switch(w) PROVE HolderWorks'
    BY <1>3, RequestEnds DEF Update, DeleteGateway, Switch, Release
  <1>4. ASSUME NEW b \in Starts, NEW f \in GatewayFiles, NEW prune \in BOOLEAN, SweepStarts(b, f, prune)
        PROVE  HolderWorks'
    BY <1>4 DEF SweepStarts
  <1>5. ASSUME NEW b \in Starts, SweepReads(b) PROVE HolderWorks'
    BY <1>5 DEF SweepReads, SweepSet
  <1>6. ASSUME NEW b \in Starts, SweepCommits(b) \/ SweepFails(b) PROVE HolderWorks'
    BY <1>6, SweepEnds DEF SweepCommits, SweepFails, Release
  <1>7. CASE LockLost \/ UNCHANGED gatewayVars
    BY <1>7 DEF LockLost
  <1> QED
    BY <1>1, <1>2, <1>3, <1>4, <1>5, <1>6, <1>7 DEF GatewaysNext

\* Losses are only ever added to.
LEMMA LossesGrow ==
  ASSUME GatewaysAssumption, Typed, [GatewaysNext]_gatewayVars, losses' = 0
  PROVE  losses = 0
  <1>1. losses' = losses \/ losses' = losses + 1
    BY Zenon DEF GatewaysNext, gatewayVars, CreateGateway, AskOwner, Update, DeleteGateway, Switch, SweepStarts,
                 SweepReads, SweepCommits, SweepFails, LockLost
  <1> QED
    BY <1>1 DEF Typed, GatewaysAssumption

\* While no lock is lost, one of them at a time is between its two steps, and
\* nothing it has read about owners and targets changes under it.
LEMMA LockStep ==
  ASSUME GatewaysAssumption, Typed, HolderWorks, LockHolds, [GatewaysNext]_gatewayVars
  PROVE  LockHolds'
  <1> SUFFICES ASSUME losses' = 0 PROVE LockHolds'
    BY DEF LockHolds
  <1>1. losses = 0
    BY LossesGrow
  <1> USE <1>1 DEF GatewaysAssumption, LockHolds
  <1>2. ASSUME NEW w \in Callers, NEW n \in Gateways, NEW t \in Targets, CreateGateway(w, n, t) PROVE LockHolds'
    BY <1>2 DEF CreateGateway, Typed
  <1>3. ASSUME NEW w \in Callers, NEW n \in Gateways, NEW kind \in {"update", "delete", "switch"},
               NEW arg, AskOwner(w, kind, n, arg)
        PROVE  LockHolds'
    <2>1. /\ request'[w].name = n /\ request'[w].kind = kind
          /\ \A v \in Callers \ {w} : request'[v] = request[v]
          /\ row' = row /\ sweep' = sweep /\ switched' = switched
      BY <1>3 DEF AskOwner, Typed
    <2>2. \A m \in Gateways : MutableGateway(m)' <=> MutableGateway(m)
      BY <2>1 DEF MutableGateway, Present
    <2>3. \A b \in Starts : Agrees(b)' <=> Agrees(b)
      BY <2>1 DEF Agrees
    <2> QED
      BY <1>3, <2>1, <2>2, <2>3 DEF AskOwner, Typed
  <1>4. ASSUME NEW w \in Callers, Update(w) \/ DeleteGateway(w) PROVE LockHolds'
    <2>1. holder = w
      BY <1>4 DEF Update, DeleteGateway
    <2> QED
      BY <1>4, <2>1, RequestEnds DEF Update, DeleteGateway, Release, Typed
  <1>5. ASSUME NEW w \in Callers, Switch(w) PROVE LockHolds'
    <2>1. /\ request[w].name \in Gateways
          /\ \A n \in Gateways :
              /\ row'[n] = Nobody <=> row[n] = Nobody
              /\ row[n] # Nobody => row'[n].source = row[n].source /\ row'[n].target = row[n].target
              /\ row'[n] = row[n] \/ (n = request[w].name /\ row[n] # Nobody)
      <3>1. request[w].name \in Gateways /\ request[w].arg \in BOOLEAN
        BY <1>5 DEF Switch, Typed
      <3>2. row[request[w].name] \in Rows \/ ~Present(request[w].name)
        BY <3>1 DEF Typed, Present, MaybeRows
      <3> QED
        BY <1>5, <3>1, <3>2, SwitchedRow DEF Switch, Typed, Present
    <2>2. \A n \in Gateways : MutableGateway(n)' <=> MutableGateway(n)
      BY <2>1 DEF MutableGateway, Present
    <2>3. \A b \in Starts : Agrees(b) => Agrees(b)'
      BY <1>5, <2>1 DEF Switch, Agrees, OfFile, Present
    <2> QED
      BY <1>5, <2>2, <2>3, RequestEnds DEF Switch, Typed
  <1>6. ASSUME NEW b \in Starts, NEW f \in GatewayFiles, NEW prune \in BOOLEAN, SweepStarts(b, f, prune)
        PROVE  LockHolds'
    <2> DEFINE begun == [NoSweep EXCEPT !.pc = "wait", !.file = f, !.prune = prune]
    <2>1. begun.pc = "wait"
      BY DEF NoSweep
    <2>2. sweep' = sweep \/ sweep' = [sweep EXCEPT ![b] = begun]
      BY <1>6 DEF SweepStarts
    <2> HIDE DEF begun
    <2> QED
      BY <1>6, <2>1, <2>2 DEF SweepStarts, Typed, Agrees, MutableGateway, Present
  <1>7. ASSUME NEW b \in Starts, SweepReads(b) PROVE LockHolds'
    <2>1. /\ sweep'[b].rows = row /\ \A c \in Starts \ {b} : sweep'[c] = sweep[c]
      BY <1>7 DEF SweepReads, Typed, SweepSet
    <2>2. Agrees(b)'
      BY <1>7, <2>1 DEF SweepReads, Agrees
    <2> QED
      BY <1>7, <2>1, <2>2 DEF SweepReads, Typed
  <1>8. ASSUME NEW b \in Starts, SweepCommits(b) PROVE LockHolds'
    <2>1. holder = b /\ request' = request
      BY <1>8 DEF SweepCommits
    <2>2. \A w \in Callers : ~(request'[w].pc = "write" /\ request'[w].kind # "switch")
      BY <2>1
    <2>3. \A c \in Starts : sweep'[c].pc # "write"
      BY <1>8, <2>1, SweepEnds DEF SweepCommits
    <2> QED
      BY <2>2, <2>3
  <1>9. ASSUME NEW b \in Starts, SweepFails(b) PROVE LockHolds'
    <2>1. \A c \in Starts \ {b} : sweep'[c] = sweep[c]
      BY <1>9, SweepEnds DEF SweepFails
    <2>2. \A c \in Starts : Agrees(c) /\ c # b => Agrees(c)'
      BY <1>9, <2>1 DEF SweepFails, Agrees
    <2>3. \A n \in Gateways : MutableGateway(n)' <=> MutableGateway(n)
      BY <1>9 DEF SweepFails, MutableGateway, Present
    <2>4. sweep[b].pc # "write" => holder' = holder
      BY <1>9 DEF SweepFails, Release, HolderWorks
    <2>5. sweep[b].pc = "write" => holder = b
      OBVIOUS
    <2>6. \A c \in Starts : sweep'[c].pc = "write" => c # b /\ sweep[c].pc = "write"
      BY <1>9, <2>1, SweepEnds DEF SweepFails
    <2> QED
      BY <1>9, <2>2, <2>3, <2>4, <2>5, <2>6 DEF SweepFails, Typed
  <1>10. CASE LockLost
    BY <1>10 DEF LockLost
  <1>11. CASE UNCHANGED gatewayVars
    BY <1>11 DEF gatewayVars, Agrees, MutableGateway, Present
  <1> QED
    BY <1>2, <1>3, <1>4, <1>5, <1>6, <1>7, <1>8, <1>9, <1>10, <1>11 DEF GatewaysNext, LockHolds

-----------------------------------------------------------------------------
\* A reconciliation leaves the gateways as its file has them.
LEMMA SweepFollowsItsFile ==
  ASSUME GatewaysAssumption, Typed, LockHolds, losses = 0, NEW b \in Starts, SweepCommits(b)
  PROVE  GatewaysFollowTheFile'
  <1> DEFINE f == sweep[b].file
             read(n) == sweep[b].rows[n]
  <1>1. /\ f \in GatewayFiles /\ latest' = f /\ sweep[b].pc = "write"
        /\ \A n \in Gateways : row'[n] = Swept(b, n) /\ row'[n] \in MaybeRows
    BY SweptIsTyped DEF SweepCommits, Typed
  <1>2. \A n \in Gateways : n \in switched' <=> n \in switched /\ row'[n] = row[n] /\ row[n] # Nobody
    BY DEF SweepCommits, Typed
  <1>3. ASSUME NEW n \in Gateways
        PROVE  /\ read(n) = Nobody <=> row[n] = Nobody
               /\ row[n] # Nobody =>
                    /\ read(n).source = row[n].source /\ read(n).target = row[n].target
                    /\ row[n].source = Config => read(n).enabled = row[n].enabled \/ n \in switched
    BY <1>1 DEF LockHolds, Agrees
  <1>4. ASSUME NEW n \in Gateways, n \in DOMAIN f
        PROVE  OfFile(n)' /\ row'[n].target = f[n] /\ (row'[n].enabled \/ n \in switched')
    <2>1. /\ FileEntry(f, n) # Nobody /\ FileEntry(f, n).source = Config
          /\ FileEntry(f, n).target = f[n] /\ FileEntry(f, n).enabled = TRUE
      BY <1>1, <1>4, FileRowsAreRows
    <2>2. row'[n] = FileEntry(f, n) \/ (row'[n] = row[n] /\ row[n] # Nobody /\ read(n) = FileEntry(f, n))
      BY <1>1, <1>3, <1>4 DEF Swept, Present
    <2>3. CASE row'[n] = FileEntry(f, n)
      BY <2>1, <2>3 DEF OfFile, Present
    <2>4. CASE row'[n] = row[n] /\ row[n] # Nobody /\ read(n) = FileEntry(f, n)
      BY <1>2, <1>3, <2>1, <2>4 DEF OfFile, Present
    <2> QED
      BY <2>2, <2>3, <2>4
  <1>5. ASSUME NEW n \in Gateways, n \notin DOMAIN f, OfFile(n)'
        PROVE  ~row'[n].enabled \/ n \in switched'
    <2>1. OfFile(n)
      BY <1>1, <1>5, SwitchedRow DEF Swept, OfFile, Present, StillOfFile
    <2>2. Orphan(b, n) /\ StillOfFile(n)
      BY <1>3, <1>5, <2>1 DEF Orphan, OfFile, Present, StillOfFile
    <2>3. row[n] \in Rows
      BY <2>1 DEF Typed, OfFile, Present, MaybeRows
    <2>4. CASE read(n).enabled
      <3>1. row'[n] = [row[n] EXCEPT !.enabled = FALSE]
        BY <1>1, <1>5, <2>2, <2>4 DEF Swept, OfFile, Present
      <3> QED
        BY <2>3, <3>1, SwitchedRow
    <2>5. CASE ~read(n).enabled
      <3>1. row'[n] = row[n]
        BY <1>1, <1>5, <2>2, <2>5 DEF Swept, OfFile, Present
      <3> QED
        BY <1>2, <1>3, <2>1, <2>5, <3>1 DEF OfFile, Present
    <2> QED
      BY <2>4, <2>5
  <1> QED
    BY <1>1, <1>4, <1>5 DEF GatewaysFollowTheFile

\* Between reconciliations requests leave the rows of the file alone, but for
\* the switch.
LEMMA FollowStep ==
  ASSUME GatewaysAssumption, Typed, LockHolds, GatewaysFollowTheFile, [GatewaysNext]_gatewayVars
  PROVE  GatewaysFollowTheFile'
  <1> SUFFICES ASSUME losses' = 0 PROVE GatewaysFollowTheFile'
    BY DEF GatewaysFollowTheFile
  <1>1. losses = 0
    BY LossesGrow
  <1>2. ASSUME latest' = latest, switched \subseteq switched',
               \A n \in Gateways : row'[n] = row[n] \/ (~OfFile(n) /\ ~OfFile(n)') \/
                    (OfFile(n)' /\ row'[n].target = row[n].target /\ n \in switched')
        PROVE  GatewaysFollowTheFile'
    BY <1>1, <1>2 DEF GatewaysFollowTheFile, OfFile, Present
  <1>3. ASSUME NEW w \in Callers, NEW n \in Gateways, NEW t \in Targets, CreateGateway(w, n, t)
        PROVE  GatewaysFollowTheFile'
    <2>1. \A m \in Gateways : row'[m] = row[m] \/ (~OfFile(m) /\ ~OfFile(m)')
      BY <1>3 DEF CreateGateway, OfFile, Present, Typed, GatewaysAssumption
    <2> QED
      BY <1>2, <1>3, <2>1 DEF CreateGateway
  <1>4. ASSUME NEW w \in Callers, Update(w) \/ DeleteGateway(w) PROVE GatewaysFollowTheFile'
    <2>1. MutableGateway(request[w].name) /\ request[w].name \in Gateways
      BY <1>1, <1>4 DEF Update, DeleteGateway, LockHolds, Typed
    <2>2. row[request[w].name] \in Rows /\ request[w].name \in Gateways
      BY <2>1 DEF Typed, MutableGateway, Present, MaybeRows
    <2>3. \A m \in Gateways : row'[m] = row[m] \/ (~OfFile(m) /\ ~OfFile(m)')
      BY <1>4, <2>1, <2>2 DEF Update, DeleteGateway, MutableGateway, OfFile, Present, Typed, Rows
    <2> QED
      BY <1>2, <1>4, <2>3 DEF Update, DeleteGateway
  <1>5. ASSUME NEW w \in Callers, Switch(w) PROVE GatewaysFollowTheFile'
    <2>1. request[w].name \in Gateways /\ request[w].arg \in BOOLEAN
      BY <1>5 DEF Switch, Typed
    <2>2. row[request[w].name] \in Rows \/ ~Present(request[w].name)
      BY <2>1 DEF Typed, Present, MaybeRows
    <2>3. \A m \in Gateways : row'[m] = row[m] \/
            (m = request[w].name /\ row'[m].source = row[m].source /\ row'[m].target = row[m].target
             /\ row[m] # Nobody /\ row'[m] # Nobody)
      BY <1>5, <2>1, <2>2, SwitchedRow DEF Switch, Present, Typed, GatewaysAssumption
    <2>4. \A m \in Gateways : row'[m] = row[m] \/ (~OfFile(m) /\ ~OfFile(m)') \/
                    (OfFile(m)' /\ row'[m].target = row[m].target /\ m \in switched')
      BY <1>5, <2>1, <2>3 DEF Switch, OfFile, Present
    <2> QED
      BY <1>2, <1>5, <2>4 DEF Switch
  <1>6. ASSUME NEW b \in Starts, SweepCommits(b) PROVE GatewaysFollowTheFile'
    BY <1>1, <1>6, SweepFollowsItsFile
  <1>7. CASE UNCHANGED <<row, latest, switched>>
    BY <1>2, <1>7
  <1>8. \/ \E w \in Callers :
            \/ \E n \in Gateways, t \in Targets : CreateGateway(w, n, t)
            \/ Update(w) \/ DeleteGateway(w) \/ Switch(w)
        \/ \E b \in Starts : SweepCommits(b)
        \/ UNCHANGED <<row, latest, switched>>
    BY Zenon DEF GatewaysNext, gatewayVars, AskOwner, SweepStarts, SweepReads, SweepFails, LockLost
  <1> QED
    BY <1>3, <1>4, <1>5, <1>6, <1>7, <1>8

-----------------------------------------------------------------------------
\* The invariant holds throughout.
LEMMA TableInvariant == ASSUME GatewaysAssumption PROVE GatewaysSpec => []TableInv
  <1>1. TableInv /\ [GatewaysNext]_gatewayVars => TableInv'
    BY TypedStep, HolderStep, LockStep, FollowStep DEF TableInv
  <1> QED
    BY <1>1, InvInit, PTL DEF GatewaysSpec

\* The variables of the gateway table always have their types, and who holds the
\* lock is between its two steps.
THEOREM GatewaysTypeCorrect == ASSUME GatewaysAssumption PROVE GatewaysSpec => []GatewaysTypeOK
  BY TableInvariant, InvIsTyped, PTL

\* Whatever the number of requests and start-ups: as long as no lock is lost the
\* gateways of the file are as it has them and its other rows do not answer
\* (gateways/reconcile.ts applyReconciliation, endpoints.ts setGatewayDisabled).
THEOREM FileIsFollowed == ASSUME GatewaysAssumption PROVE GatewaysSpec => []GatewaysFollowTheFile
  <1>1. TableInv => GatewaysFollowTheFile
    BY DEF TableInv
  <1> QED
    BY <1>1, TableInvariant, PTL

\* A reconciliation leaves an administrator's gateway alone, lock or no lock,
\* for the condition on source in its statements (gateways/reconcile.ts).
THEOREM ManualRowsSurvive == ASSUME GatewaysAssumption PROVE GatewaysSpec => ManualRowsSurviveASweep
  <1>1. ASSUME NEW n \in Gateways, NEW b \in Starts,
               SweepCommits(b), MutableGateway(n), n \notin DOMAIN sweep[b].file
        PROVE  row'[n] = row[n]
    BY <1>1 DEF SweepCommits, Swept, StillOfFile, OfFile, MutableGateway
  <1>2. [GatewaysNext]_gatewayVars =>
          [\A n \in Gateways, b \in Starts :
            SweepCommits(b) /\ MutableGateway(n) /\ n \notin DOMAIN sweep[b].file => row'[n] = row[n]]_gatewayVars
    BY <1>1
  <1> QED
    BY <1>2, PTL DEF GatewaysSpec, ManualRowsSurviveASweep

-----------------------------------------------------------------------------
\* What the rows are seen as in OwnedTable.
Owner == [n \in Gateways |-> OwnerOf(n)]
LooseNames == IF losses = 0 THEN {} ELSE Gateways
Abstract == <<Owner, DOMAIN latest, LooseNames>>

\* A step that leaves the owners, the file and the lock alone is a stutter.
LEMMA SameOwners ==
  ASSUME \A n \in Gateways : OwnerOf(n)' = OwnerOf(n), latest' = latest, losses' = losses
  PROVE  UNCHANGED Abstract
  BY DEF Owner, Abstract, LooseNames

\* A reconciliation claims names of its file and drops rows that were the file's.
LEMMA SweepReconciles ==
  ASSUME GatewaysAssumption, TableInv, NEW b \in Starts, SweepCommits(b)
  PROVE  Owners!Next
  <1> DEFINE f == DOMAIN sweep[b].file
             kept == {n \in f : OwnerOf(n)' = Config}
             dropped == {n \in Gateways \ f : OwnerOf(n)' # OwnerOf(n)}
  <1>1. /\ Typed /\ sweep[b].file \in GatewayFiles /\ sweep[b].pc = "write"
        /\ f \subseteq Gateways /\ latest' = sweep[b].file /\ losses' = losses
        /\ \A n \in Gateways : row'[n] = Swept(b, n)
    BY SweptIsTyped DEF TableInv, SweepCommits, Typed, GatewaysAssumption
  <1>2. ASSUME NEW n \in Gateways, n \in f
        PROVE  OwnerOf(n)' = Config \/ OwnerOf(n)' = OwnerOf(n)
    <2>1. FileEntry(sweep[b].file, n) # Nobody /\ FileEntry(sweep[b].file, n).source = Config
      BY <1>1, <1>2, FileRowsAreRows
    <2>2. row'[n] = FileEntry(sweep[b].file, n) \/ row'[n] = row[n]
      BY <1>1, <1>2 DEF Swept
    <2> QED
      BY <2>1, <2>2 DEF OwnerOf, Present
  <1>3. ASSUME NEW n \in Gateways, n \notin f
        PROVE  /\ OwnerOf(n)' = OwnerOf(n) \/ OwnerOf(n)' = Nobody
               /\ OwnerOf(n)' # OwnerOf(n) => OwnerOf(n) = Config
    <2>1. CASE Orphan(b, n) /\ StillOfFile(n)
      <3>1. row[n] \in Rows
        BY <1>1, <2>1 DEF StillOfFile, OfFile, Present, Typed, MaybeRows
      <3>2. row'[n] = row[n] \/ row'[n] = Nobody \/ row'[n] = [row[n] EXCEPT !.enabled = FALSE]
        BY <1>1, <1>3, <2>1 DEF Swept
      <3>3. [row[n] EXCEPT !.enabled = FALSE] # Nobody
        BY <3>1, SwitchedRow DEF GatewaysAssumption
      <3> QED
        BY <2>1, <3>1, <3>2, <3>3, SwitchedRow DEF OwnerOf, Present, StillOfFile, OfFile
    <2>2. CASE ~(Orphan(b, n) /\ StillOfFile(n))
      BY <1>1, <1>3, <2>2 DEF Swept, OwnerOf, Present
    <2> QED
      BY <2>1, <2>2
  <1>4. losses = 0 => kept = f
    <2>1. losses = 0 => GatewaysFollowTheFile'
      BY <1>1, SweepFollowsItsFile DEF TableInv
    <2> QED
      BY <1>1, <2>1 DEF GatewaysFollowTheFile, OfFile, OwnerOf
  <1>5. Owner' = [n \in Gateways |-> IF n \in kept THEN Config
                                    ELSE IF n \in dropped THEN Nobody ELSE Owner[n]]
    <2>1. \A n \in Gateways : OwnerOf(n)' = IF n \in kept THEN Config
                                           ELSE IF n \in dropped THEN Nobody ELSE Owner[n]
      BY <1>1, <1>2, <1>3 DEF Owner
    <2> QED
      BY <2>1 DEF Owner
  <1>6. dropped \in SUBSET (Owners!Owned(Config) \ f)
    BY <1>3 DEF Owner, Owners!Owned
  <1>7. kept \in SUBSET f /\ f \in SUBSET Gateways
    BY <1>1
  <1>8. Owners!Reconcile(f, kept, dropped)
    BY <1>1, <1>4, <1>5 DEF Owners!Reconcile, Owner
  <1> QED
    BY <1>6, <1>7, <1>8 DEF Owners!Next

\* Every step is one of the abstract table or changes nothing it sees.
LEMMA StepIsAbstract ==
  ASSUME GatewaysAssumption, TableInv, [GatewaysNext]_gatewayVars
  PROVE  Owners!Next \/ UNCHANGED Abstract
  <1> USE DEF TableInv
  <1>1. ASSUME NEW w \in Callers, NEW n \in Gateways, NEW t \in Targets, CreateGateway(w, n, t)
        PROVE  Owners!Next
    <2>1. [source |-> Manual, target |-> t, enabled |-> TRUE] \in Rows
      BY DEF Rows
    <2>2. Owner[n] = Nobody /\ Owner' = [Owner EXCEPT ![n] = Manual]
      BY <1>1, <2>1 DEF CreateGateway, Owner, OwnerOf, Present, Typed, GatewaysAssumption
    <2>3. Owners!Register(n, Manual)
      BY <1>1, <2>2 DEF CreateGateway, Owners!Register, Owner
    <2> QED
      BY <2>3 DEF Owners!Next
  <1>2. ASSUME NEW w \in Callers, Update(w) \/ Switch(w) PROVE UNCHANGED Abstract
    <2>1. request[w].name \in Gateways
      BY <1>2 DEF Update, Switch, Typed
    <2>2. \A n \in Gateways : OwnerOf(n)' = OwnerOf(n)
      <3>1. row[request[w].name] \in Rows \/ ~Present(request[w].name)
        BY <2>1 DEF Typed, Present, MaybeRows
      <3>2. CASE Update(w)
        <4>1. request[w].arg \in Targets
          BY <3>2 DEF Update, Typed
        <4> DEFINE n == request[w].name
                   new == [row[n] EXCEPT !.target = request[w].arg]
        <4>2. row[n] \in Rows => new \in Rows /\ new.source = row[n].source
          BY <4>1, RetargetedRow
        <4>3. row' = row \/ (row[n] \in Rows /\ row' = [row EXCEPT ![n] = new])
          <5>1. CASE Present(n)
            <6>1. row' = [row EXCEPT ![n].target = request[w].arg]
              BY <3>2, <5>1 DEF Update
            <6> QED
              BY <3>1, <5>1, <6>1, Zenon
          <5>2. CASE ~Present(n)
            BY <3>2, <5>2, Zenon DEF Update
          <5> QED
            BY <5>1, <5>2
        <4> HIDE DEF new
        <4> QED
          BY <2>1, <4>2, <4>3 DEF Typed, OwnerOf, Present, GatewaysAssumption
      <3>3. CASE Switch(w)
        <4>1. request[w].arg \in BOOLEAN
          BY <3>3 DEF Switch, Typed
        <4> QED
          BY <2>1, <3>1, <3>3, <4>1, SwitchedRow DEF Switch, Typed, OwnerOf, Present, GatewaysAssumption
      <3> QED
        BY <1>2, <3>2, <3>3
    <2> QED
      BY <1>2, <2>2, SameOwners DEF Update, Switch
  <1>3. ASSUME NEW w \in Callers, DeleteGateway(w) PROVE Owners!Next
    <2> DEFINE n == request[w].name
    <2>1. n \in Gateways /\ latest' = latest /\ losses' = losses
      BY <1>3 DEF DeleteGateway, Typed
    <2>2. Owner' = [Owner EXCEPT ![n] = Nobody]
      BY <1>3, <2>1 DEF DeleteGateway, Owner, OwnerOf, Present, Typed
    <2>3. losses = 0 => Owner[n] = Manual
      BY <1>3, <2>1 DEF DeleteGateway, LockHolds, MutableGateway, Owner, OwnerOf, Present, Typed, MaybeRows, Rows
    <2>4. Owner' = [m \in Gateways |-> IF m \in {n} THEN Nobody ELSE Owner[m]]
      BY <2>1, <2>2 DEF Owner
    <2>5. {n} \cap Owners!Owned(Config) \subseteq LooseNames /\ LooseNames' = LooseNames
      BY <2>1, <2>3 DEF LooseNames, Owners!Owned, Owner, GatewaysAssumption
    <2>6. Owners!Remove({n})
      BY <2>1, <2>4, <2>5 DEF Owners!Remove, Owner, LooseNames
    <2> QED
      BY <2>1, <2>6 DEF Owners!Next
  <1>4. ASSUME NEW b \in Starts, SweepCommits(b) PROVE Owners!Next
    BY <1>4, SweepReconciles
  <1>5. CASE LockLost
    <2>1. /\ \A n \in Gateways : OwnerOf(n)' = OwnerOf(n)
          /\ latest' = latest /\ losses' # 0
      BY <1>5 DEF LockLost, Typed, OwnerOf, Present, GatewaysAssumption
    <2>2. Owner' = [n \in Gateways |-> IF n \in {} THEN Nobody ELSE Owner[n]]
      BY <2>1 DEF Owner
    <2>3. LooseNames \subseteq LooseNames'
      BY <2>1 DEF LooseNames
    <2>4. Owners!Remove({})
      BY <2>1, <2>2, <2>3 DEF Owners!Remove, Owner, LooseNames
    <2> QED
      BY <2>4 DEF Owners!Next
  <1>6. CASE row' = row /\ latest' = latest /\ losses' = losses
    BY <1>6, SameOwners DEF OwnerOf, Present
  <1>7. \/ \E w \in Callers :
            \/ \E n \in Gateways, t \in Targets : CreateGateway(w, n, t)
            \/ Update(w) \/ DeleteGateway(w) \/ Switch(w)
        \/ \E b \in Starts : SweepCommits(b)
        \/ LockLost
        \/ row' = row /\ latest' = latest /\ losses' = losses
    BY Zenon DEF GatewaysNext, gatewayVars, AskOwner, SweepStarts, SweepReads, SweepFails
  <1> QED
    BY <1>1, <1>2, <1>3, <1>4, <1>5, <1>6, <1>7

\* The gateway table implements OwnedTable: however requests, start-ups and lost
\* locks interleave, owners change only as it allows (gateways/reconcile.ts and
\* the gateway endpoints).
THEOREM Implements == ASSUME GatewaysAssumption PROVE GatewaysSpec => OwnersChangeAsPromised
  <1>1. GatewaysInit => Owners!Init
    <2>1. ASSUME GatewaysInit PROVE DOMAIN latest = {}
      BY <2>1 DEF GatewaysInit
    <2> QED
      BY <2>1 DEF GatewaysInit, Owners!Init, OwnerOf, Present
  <1>2. TableInv /\ [GatewaysNext]_gatewayVars => [Owners!Next]_Abstract
    BY StepIsAbstract
  <1> QED
    BY <1>1, <1>2, TableInvariant, PTL
       DEF GatewaysSpec, OwnersChangeAsPromised, Owners!Spec, Abstract, Owner, LooseNames

-----------------------------------------------------------------------------
(* The table of clients: types.                                             *)

MaybeClientRows == RowSet \cup {None}
Calls == [pc : {"idle", "asked", "edit", "refresh", "install"},
          kind : {"", "edit", "disable", "rotate", "delete"}, id : Clients \cup {None},
          arg : BOOLEAN, row : MaybeClientRows \cup (SUBSET Clients)]
StartUps == [pc : {"off", "lock", "merge", "origins", "serve"}, file : Files \cup {<<>>},
             prune : BOOLEAN, rows : [Clients -> MaybeClientRows] \cup {<<>>} \cup (SUBSET Clients),
             clean : SUBSET Clients]

\* What the calls and the start-up carry between their steps.
ClientsTyped ==
    /\ client \in [Clients -> MaybeClientRows] /\ wish \in [Clients -> MaybeClientRows]
    /\ call \in [Writers -> Calls]
    /\ \A w \in Writers :
        /\ call[w].pc \in {"asked", "edit"} => call[w].id \in Clients
        /\ call[w].pc = "edit" => call[w].row \in RowSet
        /\ call[w].pc = "install" => call[w].row \in SUBSET Clients
    /\ boot \in StartUps
    /\ boot.pc = "merge" => boot.rows \in [Clients -> MaybeClientRows]
    /\ boot.pc = "serve" => boot.rows \in SUBSET Clients
    /\ boot.pc = "lock" => boot.file \in Files
    /\ applied \in Files \cup {<<>>}
    /\ earlier \in [Writers \cup {Boot} -> SUBSET (Writers \cup {Boot})]
    /\ admins \subseteq Admins
    /\ minted \in 0..MaxSecrets
    /\ lock \in Writers \cup {Boot, None}
    /\ \A w \in Writers : lock = w <=> call[w].pc = "edit"
    /\ lock = Boot <=> boot.pc = "merge"
    /\ origins \subseteq Clients
    /\ overtaken \subseteq Writers \cup {Boot} /\ old \subseteq Writers
    /\ outside \subseteq Clients /\ contested \subseteq Clients

\* Rows are of administrators who are there, and tokens of rows that are.
RowsInv ==
    /\ \A c \in Clients : Mutable(c) => client[c].owner \in admins
    /\ held \subseteq {c \in Clients : Exists(c)}

\* What an edit has read is the row of an administrator, and the row keeps its
\* owner until the edit writes it back.
EditInv ==
    \A w \in Writers : call[w].pc = "edit" =>
        /\ call[w].row.owner # File
        /\ Exists(call[w].id) => client[call[w].id].owner = call[w].row.owner

\* What a reconciliation has read and nobody touched is the row; what was touched
\* since was a row of the file, or is still an administrator's.
MergeInv ==
    boot.pc = "merge" =>
        \A c \in Clients :
            /\ Exists(c) => boot.rows[c] # None /\ client[c].owner = boot.rows[c].owner
            /\ c \in boot.clean => client[c] = boot.rows[c]
            /\ c \notin boot.clean \cup outside =>
                boot.rows[c] = None \/ (boot.rows[c].owner # File /\ Exists(c))

\* A row of an administrator has had a call that was answered, and an edit that
\* nobody disturbed has the row in hand.
WishInv ==
    /\ \A c \in Clients : Mutable(c) => wish[c] # None
    /\ \A w \in Writers : call[w].pc = "edit" /\ call[w].id \notin contested =>
        client[call[w].id] = call[w].row
    /\ LastCallHolds

\* A refresh that nobody overtook has what is enabled, or another refresh is to
\* come, or one that read after it, and so is going to overtake it.
OthersToCome(w) ==
    \/ \E x \in Writers : call[x].pc = "refresh"
    \/ \E x \in Writers : call[x].pc = "install" /\ w \in earlier[x]

RefreshInv ==
    /\ \A w \in Writers : call[w].pc = "install" =>
        /\ w \notin earlier[w]
        /\ w \notin overtaken => call[w].row = Enabled \/ OthersToCome(w)
    /\ boot.pc = "serve" /\ Boot \notin overtaken => boot.rows = Enabled
    /\ ~stale => \/ origins = Enabled
                 \/ \E x \in Writers : call[x].pc \in {"refresh", "install"}

ClientsInv ==
    ClientsTyped /\ RowsInv /\ EditInv /\ MergeInv /\ FileRowsFollowTheFile /\ WishInv /\ RefreshInv

-----------------------------------------------------------------------------
LEMMA ClientsInvIsTyped == ASSUME ClientsAssumption PROVE ClientsInv => TypeOK
  <1> SUFFICES ASSUME ClientsInv PROVE TypeOK
    OBVIOUS
  <1>1. \A c \in Clients : Exists(c) => client[c] \in RowSet
    BY DEF ClientsInv, ClientsTyped, MaybeClientRows, Exists
  <1>2. \A w \in Writers : call[w].pc \in {"idle", "asked", "edit", "refresh", "install"}
    BY DEF ClientsInv, ClientsTyped, Calls
  <1>3. boot.pc \in {"off", "lock", "merge", "origins", "serve"}
    BY DEF ClientsInv, ClientsTyped, StartUps
  <1> QED
    BY <1>1, <1>2, <1>3 DEF ClientsInv, ClientsTyped, RowsInv, TypeOK

LEMMA OffIs == Off \in StartUps /\ Off.pc = "off" /\ Off.clean = {}
  BY DEF Off, StartUps

LEMMA IdleIs == Idle \in Calls /\ Idle.pc = "idle"
  BY DEF Idle, Calls, MaybeClientRows

LEMMA ClientsInvInit == ASSUME ClientsAssumption PROVE Init => ClientsInv
  <1> SUFFICES ASSUME Init PROVE ClientsInv
    OBVIOUS
  <1> USE DEF Init, ClientsAssumption
  <1>1. ClientsTyped
    BY OffIs, IdleIs DEF ClientsTyped, MaybeClientRows
  <1>2. RowsInv /\ MergeInv /\ EditInv
    BY OffIs, IdleIs DEF RowsInv, MergeInv, EditInv, Mutable, Exists
  <1>3. FileRowsFollowTheFile
    BY DEF FileRowsFollowTheFile, Exists
  <1>4. WishInv
    BY IdleIs DEF WishInv, LastCallHolds, Mutable, Exists
  <1>5. Enabled = {}
    BY DEF Enabled, Exists
  <1>6. RefreshInv
    BY <1>5, IdleIs, OffIs DEF RefreshInv
  <1> QED
    BY <1>1, <1>2, <1>3, <1>4, <1>6 DEF ClientsInv

-----------------------------------------------------------------------------
(* What the steps write into the records.                                  *)

LEMMA RefreshIs == [Idle EXCEPT !.pc = "refresh"] \in Calls /\ [Idle EXCEPT !.pc = "refresh"].pc = "refresh"
  BY DEF Idle, Calls, MaybeClientRows

LEMMA InstallIs ==
  ASSUME NEW S \in SUBSET Clients
  PROVE  LET e == [Idle EXCEPT !.pc = "install", !.row = S] IN
         e \in Calls /\ e.pc = "install" /\ e.row = S
  BY DEF Idle, Calls, MaybeClientRows

LEMMA AskedIs ==
  ASSUME NEW kind \in {"edit", "disable", "rotate", "delete"}, NEW c \in Clients, NEW arg \in BOOLEAN
  PROVE  LET e == [pc |-> "asked", kind |-> kind, id |-> c, arg |-> arg, row |-> None] IN
         e \in Calls /\ e.pc = "asked" /\ e.id = c
  BY DEF Calls, MaybeClientRows

\* An edit of one column of a row, and of the row as it is carried.
LEMMA RowDisabled ==
  ASSUME NEW r \in RowSet, NEW d \in BOOLEAN
  PROVE  /\ [r EXCEPT !.disabled = d] \in RowSet /\ [r EXCEPT !.disabled = d].owner = r.owner
         /\ [r EXCEPT !.disabled = d].disabled = d /\ [r EXCEPT !.disabled = d].secret = r.secret
  BY DEF RowSet

LEMMA RowSecret ==
  ASSUME NEW r \in RowSet, NEW s \in 0..MaxSecrets
  PROVE  /\ [r EXCEPT !.secret = s] \in RowSet /\ [r EXCEPT !.secret = s].owner = r.owner
         /\ [r EXCEPT !.secret = s].disabled = r.disabled /\ [r EXCEPT !.secret = s].secret = s
  BY DEF RowSet

LEMMA RowCarried ==
  ASSUME NEW r \in RowSet, NEW s \in 0..MaxSecrets
  PROVE  /\ Carried(r, s) \in RowSet /\ Carried(r, s).owner = r.owner
         /\ Carried(r, s).disabled = r.disabled /\ Carried(r, s).secret = s
  BY DEF RowSet, Carried

LEMMA FileRowIs ==
  ASSUME ClientsAssumption, NEW f \in Files \cup {<<>>}, NEW c \in DOMAIN f
  PROVE  c \in Clients /\ FileRow(f, c) \in RowSet /\ FileRow(f, c).owner = File
  <1>1. f \in Files
    OBVIOUS
  <1>2. c \in Clients /\ f[c] \in [disabled : BOOLEAN, secret : {0, FileSecret}]
    BY <1>1 DEF ClientsAssumption
  <1>3. f[c].disabled \in BOOLEAN /\ f[c].secret \in 0..MaxSecrets
    BY <1>2 DEF ClientsAssumption
  <1> QED
    BY <1>2, <1>3 DEF FileRow, RowSet

\* Commit, Answer and Touch, in the terms of the types.
LEMMA CommitIs ==
  ASSUME ClientsTyped, NEW w \in Writers, Commit(w)
  PROVE  /\ call' \in [Writers -> Calls] /\ call'[w].pc \in {"idle", "refresh"}
         /\ \A x \in Writers : x # w => call'[x] = call[x]
         /\ \/ call'[w].pc = "refresh" /\ overtaken' = overtaken \cup (IF boot.pc = "serve" THEN {Boot} ELSE {}) /\ stale' = stale
            \/ Unrefreshed
         /\ origins' = origins /\ earlier' = earlier
         /\ old' \subseteq Writers /\ overtaken' \subseteq Writers \cup {Boot}
  <1>1. CASE w \in old
    BY <1>1, IdleIs DEF ClientsTyped, Commit, Unrefreshed, Refreshing
  <1>2. CASE w \notin old
    BY <1>2, RefreshIs DEF ClientsTyped, Commit
  <1> QED
    BY <1>1, <1>2

LEMMA AnswerIs ==
  ASSUME ClientsTyped, NEW w \in Writers, Answer(w)
  PROVE  /\ call' \in [Writers -> Calls] /\ call'[w].pc = "idle"
         /\ \A x \in Writers : x # w => call'[x] = call[x]
         /\ old' \subseteq Writers
  BY IdleIs DEF ClientsTyped, Answer

LEMMA TouchIs ==
  ASSUME ClientsTyped, NEW c \in Clients, Touch(c)
  PROVE  /\ boot' \in StartUps /\ boot'.pc = boot.pc /\ boot'.file = boot.file /\ boot'.rows = boot.rows
         /\ boot'.prune = boot.prune /\ boot'.clean = boot.clean \ {c}
         /\ outside' = outside \cup (IF Exists(c) /\ client[c].owner = File THEN {c} ELSE {})
         /\ contested' = contested \cup (IF \E w \in Writers : call[w].pc = "edit" /\ call[w].id = c THEN {c} ELSE {})
  <1>1. boot \in StartUps
    BY DEF ClientsTyped
  <1>2. boot' = [boot EXCEPT !.clean = boot.clean \ {c}]
    BY DEF Touch
  <1>3. /\ boot' \in StartUps /\ boot'.pc = boot.pc /\ boot'.file = boot.file /\ boot'.rows = boot.rows
        /\ boot'.prune = boot.prune /\ boot'.clean = boot.clean \ {c}
    BY <1>1, <1>2 DEF StartUps
  <1> QED
    BY <1>3 DEF Touch

\* What one write of a row does to the rows, and to what was asked for.
LEMMA EditWritesIs ==
  ASSUME ClientsAssumption, ClientsInv, NEW w \in Writers, EditWrites(w)
  PROVE  LET c == call[w].id IN
         /\ c \in Clients /\ call[w].row \in RowSet /\ call[w].pc = "edit"
         /\ client' \in [Clients -> MaybeClientRows] /\ wish' \in [Clients -> MaybeClientRows]
         /\ \A d \in Clients : d # c => client'[d] = client[d] /\ wish'[d] = wish[d]
         /\ ~Exists(c) => client' = client /\ wish' = wish
         /\ Exists(c) =>
              /\ client'[c] \in RowSet /\ client'[c].owner = call[w].row.owner
              /\ client'[c].disabled = call[w].row.disabled
              /\ wish'[c] \in RowSet /\ wish'[c].disabled = wish[c].disabled
              /\ wish[c].secret = call[w].row.secret => wish'[c].secret = client'[c].secret
         /\ minted' \in 0..MaxSecrets /\ held' \subseteq held
  <1> DEFINE c == call[w].id
             read == call[w].row
             fresh == ~call[w].arg /\ read.secret = 0
             secret == IF call[w].arg THEN 0 ELSE IF fresh THEN minted + 1 ELSE read.secret
  <1>0. ClientsTyped
    BY DEF ClientsInv
  <1>1. c \in Clients /\ read \in RowSet /\ call[w].pc = "edit"
    BY <1>0 DEF ClientsTyped, EditWrites
  <1>2. read.secret \in 0..MaxSecrets
    BY <1>1 DEF RowSet
  <1>3. minted' \in 0..MaxSecrets /\ secret \in 0..MaxSecrets
    BY <1>0, <1>2 DEF ClientsTyped, EditWrites, ClientsAssumption
  <1>4. held' \subseteq held
    BY DEF EditWrites
  <1>5. /\ client' = IF Exists(c) THEN [client EXCEPT ![c] = Carried(read, secret)] ELSE client
        /\ wish' = IF Exists(c) /\ secret # read.secret THEN [wish EXCEPT ![c] = [wish[c] EXCEPT !.secret = secret]] ELSE wish
    BY DEF EditWrites
  <1>6. /\ Carried(read, secret) \in RowSet /\ Carried(read, secret).owner = read.owner
        /\ Carried(read, secret).disabled = read.disabled /\ Carried(read, secret).secret = secret
    <2> HIDE DEF read, secret, fresh
    <2> QED
      BY <1>1, <1>3, RowCarried
  <1>7. Exists(c) => wish[c] \in RowSet
    BY <1>0, <1>1 DEF ClientsInv, EditInv, WishInv, ClientsTyped, MaybeClientRows, Mutable
  <1> HIDE DEF secret, fresh
  <1>8. /\ client' \in [Clients -> MaybeClientRows]
        /\ \A d \in Clients : d # c => client'[d] = client[d]
        /\ ~Exists(c) => client' = client
        /\ Exists(c) => client'[c] = Carried(read, secret)
    BY <1>0, <1>1, <1>5, <1>6 DEF ClientsTyped, MaybeClientRows
  <1>9. CASE Exists(c) /\ secret # read.secret
    <2>1. /\ [wish[c] EXCEPT !.secret = secret] \in RowSet /\ [wish[c] EXCEPT !.secret = secret].secret = secret
          /\ [wish[c] EXCEPT !.secret = secret].disabled = wish[c].disabled
      BY <1>3, <1>7, <1>9, RowSecret
    <2> QED
      BY <1>0, <1>1, <1>3, <1>4, <1>5, <1>6, <1>8, <1>9, <2>1 DEF ClientsTyped, MaybeClientRows
  <1>10. CASE ~(Exists(c) /\ secret # read.secret)
    <2>1. wish' = wish
      BY <1>5, <1>10
    <2> QED
      BY <1>0, <1>1, <1>3, <1>4, <1>6, <1>7, <1>8, <1>10, <2>1 DEF ClientsTyped
  <1> QED
    BY <1>9, <1>10

\* The calls without the lock keep the owners, and set what they were asked to.
LEMMA SetDisabledIs ==
  ASSUME ClientsAssumption, ClientsInv, NEW w \in Writers, SetDisabled(w)
  PROVE  LET c == call[w].id IN
         /\ c \in Clients /\ call[w].pc = "asked"
         /\ client' \in [Clients -> MaybeClientRows] /\ wish' \in [Clients -> MaybeClientRows]
         /\ \A d \in Clients : d # c => client'[d] = client[d] /\ wish'[d] = wish[d]
         /\ ~Exists(c) => client' = client /\ wish' = wish
         /\ Exists(c) => client'[c] \in RowSet /\ client'[c].owner = client[c].owner
         /\ Exists(c) /\ wish[c] # None =>
              /\ wish'[c] \in RowSet /\ client'[c].disabled = wish'[c].disabled
              /\ client'[c].secret = client[c].secret /\ wish'[c].secret = wish[c].secret
  <1> DEFINE c == call[w].id
             d == call[w].arg
  <1>0. ClientsTyped
    BY DEF ClientsInv
  <1>1. c \in Clients /\ d \in BOOLEAN /\ call[w].pc = "asked"
    BY <1>0 DEF ClientsTyped, SetDisabled, Calls
  <1>2. ASSUME NEW r \in RowSet
        PROVE  /\ [r EXCEPT !.disabled = d] \in RowSet /\ [r EXCEPT !.disabled = d].owner = r.owner
               /\ [r EXCEPT !.disabled = d].disabled = d /\ [r EXCEPT !.disabled = d].secret = r.secret
    <2> HIDE DEF d
    <2> QED
      BY <1>1, RowDisabled
  <1>3. /\ Exists(c) => client' = [client EXCEPT ![c] = [client[c] EXCEPT !.disabled = d]]
        /\ Exists(c) => wish' = [wish EXCEPT ![c] = IF wish[c] = None THEN None ELSE [wish[c] EXCEPT !.disabled = d]]
        /\ ~Exists(c) => client' = client /\ wish' = wish
    BY DEF SetDisabled
  <1> HIDE DEF d
  <1>4. CASE Exists(c)
    <2>1. client[c] \in RowSet /\ (wish[c] # None => wish[c] \in RowSet)
      BY <1>0, <1>1, <1>4 DEF ClientsTyped, MaybeClientRows, Exists
    <2>2. client'[c] = [client[c] EXCEPT !.disabled = d] /\ client' \in [Clients -> MaybeClientRows]
      BY <1>0, <1>1, <1>2, <1>3, <1>4, <2>1 DEF ClientsTyped, MaybeClientRows
    <2>3. /\ wish[c] # None => wish'[c] = [wish[c] EXCEPT !.disabled = d]
          /\ wish' \in [Clients -> MaybeClientRows]
      BY <1>0, <1>1, <1>2, <1>3, <1>4, <2>1 DEF ClientsTyped, MaybeClientRows
    <2>4. \A e \in Clients : e # c => client'[e] = client[e] /\ wish'[e] = wish[e]
      BY <1>0, <1>1, <1>3, <1>4 DEF ClientsTyped
    <2>5. /\ client'[c] \in RowSet /\ client'[c].owner = client[c].owner
          /\ client'[c].disabled = d /\ client'[c].secret = client[c].secret
      BY <1>2, <2>1, <2>2
    <2>6. ASSUME wish[c] # None
          PROVE  wish'[c] \in RowSet /\ wish'[c].disabled = d /\ wish'[c].secret = wish[c].secret
      <3>1. wish[c] \in RowSet
        BY <2>1, <2>6
      <3>2. PICK r \in RowSet : r = wish[c]
        BY <3>1
      <3>3. wish'[c] = [r EXCEPT !.disabled = d]
        BY <2>3, <2>6, <3>2
      <3>4. /\ [r EXCEPT !.disabled = d] \in RowSet
            /\ [r EXCEPT !.disabled = d].disabled = d /\ [r EXCEPT !.disabled = d].secret = r.secret
        BY <1>2
      <3> QED
        BY <3>2, <3>3, <3>4, Zenon
    <2> QED
      BY <1>1, <1>4, <2>2, <2>3, <2>4, <2>5, <2>6
  <1>5. CASE ~Exists(c)
    BY <1>0, <1>1, <1>3, <1>5 DEF ClientsTyped
  <1> QED
    BY <1>4, <1>5

LEMMA RotateIs ==
  ASSUME ClientsAssumption, ClientsInv, NEW w \in Writers, Rotate(w)
  PROVE  LET c == call[w].id IN
         /\ c \in Clients /\ call[w].pc = "asked" /\ minted' \in 0..MaxSecrets
         /\ client' \in [Clients -> MaybeClientRows] /\ wish' \in [Clients -> MaybeClientRows]
         /\ \A d \in Clients : d # c => client'[d] = client[d] /\ wish'[d] = wish[d]
         /\ ~Exists(c) => client' = client /\ wish' = wish
         /\ Exists(c) => /\ client'[c] \in RowSet /\ client'[c].owner = client[c].owner
                         /\ client'[c].disabled = client[c].disabled
         /\ Exists(c) /\ wish[c] # None =>
              /\ wish'[c] \in RowSet /\ wish'[c].disabled = wish[c].disabled
              /\ client'[c].secret = wish'[c].secret
  <1> DEFINE c == call[w].id
             s == minted + 1
  <1>0. ClientsTyped
    BY DEF ClientsInv
  <1>1. c \in Clients /\ s \in 0..MaxSecrets /\ call[w].pc = "asked" /\ minted' = s
    BY <1>0 DEF ClientsTyped, Rotate, ClientsAssumption
  <1>2. ASSUME NEW r \in RowSet
        PROVE  /\ [r EXCEPT !.secret = s] \in RowSet /\ [r EXCEPT !.secret = s].owner = r.owner
               /\ [r EXCEPT !.secret = s].disabled = r.disabled /\ [r EXCEPT !.secret = s].secret = s
    <2> HIDE DEF s
    <2> QED
      BY <1>1, RowSecret
  <1>3. /\ Exists(c) => client' = [client EXCEPT ![c] = [client[c] EXCEPT !.secret = s]]
        /\ Exists(c) => wish' = [wish EXCEPT ![c] = IF wish[c] = None THEN None ELSE [wish[c] EXCEPT !.secret = s]]
        /\ ~Exists(c) => client' = client /\ wish' = wish
    BY DEF Rotate
  <1> HIDE DEF s
  <1>4. CASE Exists(c)
    <2>1. client[c] \in RowSet /\ (wish[c] # None => wish[c] \in RowSet)
      BY <1>0, <1>1, <1>4 DEF ClientsTyped, MaybeClientRows, Exists
    <2>2. client'[c] = [client[c] EXCEPT !.secret = s] /\ client' \in [Clients -> MaybeClientRows]
      BY <1>0, <1>1, <1>2, <1>3, <1>4, <2>1 DEF ClientsTyped, MaybeClientRows
    <2>3. /\ wish[c] # None => wish'[c] = [wish[c] EXCEPT !.secret = s]
          /\ wish' \in [Clients -> MaybeClientRows]
      BY <1>0, <1>1, <1>2, <1>3, <1>4, <2>1 DEF ClientsTyped, MaybeClientRows
    <2>4. \A e \in Clients : e # c => client'[e] = client[e] /\ wish'[e] = wish[e]
      BY <1>0, <1>1, <1>3, <1>4 DEF ClientsTyped
    <2>5. /\ client'[c] \in RowSet /\ client'[c].owner = client[c].owner
          /\ client'[c].secret = s /\ client'[c].disabled = client[c].disabled
      BY <1>2, <2>1, <2>2
    <2>6. ASSUME wish[c] # None
          PROVE  wish'[c] \in RowSet /\ wish'[c].secret = s /\ wish'[c].disabled = wish[c].disabled
      <3>1. wish[c] \in RowSet
        BY <2>1, <2>6
      <3>2. PICK r \in RowSet : r = wish[c]
        BY <3>1
      <3>3. wish'[c] = [r EXCEPT !.secret = s]
        BY <2>3, <2>6, <3>2
      <3>4. /\ [r EXCEPT !.secret = s] \in RowSet
            /\ [r EXCEPT !.secret = s].secret = s /\ [r EXCEPT !.secret = s].disabled = r.disabled
        BY <1>2
      <3> QED
        BY <3>2, <3>3, <3>4, Zenon
    <2> QED
      BY <1>1, <1>4, <2>2, <2>3, <2>4, <2>5, <2>6
  <1>5. CASE ~Exists(c)
    BY <1>0, <1>1, <1>3, <1>5 DEF ClientsTyped
  <1> QED
    BY <1>4, <1>5

\* What a reconciliation makes of a row.
LEMMA MergedIs ==
  ASSUME ClientsAssumption, ClientsInv, boot.pc = "merge", NEW c \in Clients
  PROVE  /\ Merged(c) \in MaybeClientRows
         /\ Merged(c) # None /\ Merged(c).owner # File =>
              Merged(c) = client[c] /\ c \notin DOMAIN boot.file /\ c \notin Orphans
         /\ Exists(c) /\ c \notin Orphans => Merged(c) # None
         /\ c \notin outside \ boot.clean =>
              IF c \in DOMAIN boot.file THEN Merged(c) = FileRow(boot.file, c)
              ELSE Merged(c) # None /\ Merged(c).owner = File => Merged(c).disabled
  <1>1. /\ boot.file \in Files \cup {<<>>} /\ boot.rows \in [Clients -> MaybeClientRows]
        /\ client[c] \in MaybeClientRows /\ boot.rows[c] \in MaybeClientRows
    BY DEF ClientsInv, ClientsTyped, StartUps
  <1>2. /\ Exists(c) => boot.rows[c] # None /\ client[c].owner = boot.rows[c].owner
        /\ c \in boot.clean => client[c] = boot.rows[c]
        /\ c \notin boot.clean \cup outside =>
             boot.rows[c] = None \/ (boot.rows[c].owner # File /\ Exists(c))
    BY DEF ClientsInv, MergeInv
  <1>3. None \notin RowSet
    BY DEF ClientsAssumption
  <1>4. CASE c \in DOMAIN boot.file
    <2>1. FileRow(boot.file, c) \in RowSet /\ FileRow(boot.file, c).owner = File
      BY <1>1, <1>4, FileRowIs
    <2>2. c \notin Orphans
      BY <1>4 DEF Orphans
    <2>3. Merged(c) = IF boot.rows[c] = None THEN FileRow(boot.file, c)
                      ELSE IF boot.rows[c] # FileRow(boot.file, c) /\ Exists(c) THEN FileRow(boot.file, c)
                      ELSE client[c]
      BY <1>4 DEF Merged
    <2> QED
      BY <1>1, <1>2, <1>3, <1>4, <2>1, <2>2, <2>3 DEF MaybeClientRows, Exists
  <1>5. CASE c \notin DOMAIN boot.file /\ c \in Orphans /\ Exists(c)
    <2> DEFINE d == client[c].disabled \/ ~boot.rows[c].disabled
               e == [client[c] EXCEPT !.disabled = d]
    <2>1. client[c] \in RowSet /\ boot.rows[c] \in RowSet /\ boot.rows[c].owner = File /\ client[c].owner = File
      BY <1>1, <1>2, <1>5 DEF Orphans, MaybeClientRows, Exists
    <2>2. d \in BOOLEAN
      BY <2>1 DEF RowSet
    <2>3. e \in RowSet /\ e.owner = client[c].owner /\ e.disabled = d
      <3> HIDE DEF d
      <3> QED
        BY <2>1, <2>2, RowDisabled
    <2>4. Merged(c) = IF boot.prune THEN None ELSE e
      BY <1>5 DEF Merged
    <2>5. c \notin outside \ boot.clean => client[c] = boot.rows[c]
      BY <1>2, <2>1, <1>3
    <2>6. c \notin outside \ boot.clean => e.disabled
      <3>1. client[c].disabled \in BOOLEAN
        BY <2>1 DEF RowSet
      <3>2. c \notin outside \ boot.clean => e.disabled = (client[c].disabled \/ ~client[c].disabled)
        BY <2>3, <2>5
      <3> HIDE DEF e
      <3> QED
        BY <3>1, <3>2
    <2> HIDE DEF e
    <2> QED
      BY <1>3, <1>5, <2>1, <2>3, <2>4, <2>6 DEF MaybeClientRows
  <1>6. CASE c \notin DOMAIN boot.file /\ ~(c \in Orphans /\ Exists(c))
    <2>1. Merged(c) = client[c]
      BY <1>6 DEF Merged
    <2>2. c \notin outside \ boot.clean /\ Exists(c) => client[c].owner # File
      BY <1>1, <1>2, <1>6 DEF Orphans, Exists, MaybeClientRows
    <2> QED
      BY <1>1, <1>6, <2>1, <2>2 DEF Exists
  <1> QED
    BY <1>4, <1>5, <1>6

-----------------------------------------------------------------------------
\* The steps, with one action for the four questions.
LEMMA ClientSteps ==
  ASSUME [Next]_clientVars
  PROVE  \/ \E w \in Writers :
              \/ \E c \in Subjects, u \in Admins, public \in BOOLEAN : Create(w, c, u, public)
              \/ \E c \in Subjects, kind \in {"edit", "disable", "rotate", "delete"}, arg \in BOOLEAN :
                    Ask(w, kind, c, arg)
              \/ EditReads(w) \/ EditWrites(w) \/ SetDisabled(w) \/ Rotate(w) \/ Delete(w)
              \/ RefreshReads(w) \/ RefreshFails(w) \/ RefreshInstalls(w)
         \/ \E u \in Admins : RemoveAdmin(u)
         \/ \E c \in Clients : Issue(c)
         \/ \E f \in Files, prune \in BOOLEAN : BootStart(f, prune)
         \/ BootReads \/ BootCommits \/ BootRefreshes \/ Serve \/ BootFails
         \/ UNCHANGED clientVars
  BY Zenon DEF Next

\* Every step keeps the variables well typed.
LEMMA ClientsTypedStep ==
  ASSUME ClientsAssumption, ClientsInv, [Next]_clientVars
  PROVE  ClientsTyped'
  <1>0. ClientsTyped
    BY DEF ClientsInv
  <1>a. ASSUME NEW w \in Writers, NEW c \in Subjects, NEW u \in Admins, NEW public \in BOOLEAN, Create(w, c, u, public)
        PROVE  ClientsTyped'
    <2> DEFINE r == [owner |-> u, disabled |-> FALSE, secret |-> IF public THEN 0 ELSE minted + 1]
    <2>1. minted' \in 0..MaxSecrets /\ r \in RowSet /\ c \in Clients
      BY <1>0, <1>a DEF Create, ClientsTyped, ClientsAssumption, RowSet
    <2>2. client' = [client EXCEPT ![c] = r] /\ wish' = [wish EXCEPT ![c] = r]
      BY <1>a DEF Create
    <2>3. Commit(w) /\ call[w].pc = "idle"
      BY <1>a DEF Create
    <2> HIDE DEF r
    <2>4. client' \in [Clients -> MaybeClientRows] /\ wish' \in [Clients -> MaybeClientRows]
      BY <1>0, <2>1, <2>2 DEF ClientsTyped, MaybeClientRows
    <2>5. UNCHANGED <<held, admins, lock, boot, applied, outside>> /\ contested' \subseteq contested
      BY <1>a DEF Create, bootVars
    <2> QED
      BY <1>0, <2>1, <2>3, <2>4, <2>5, CommitIs DEF ClientsTyped
  <1>b. ASSUME NEW w \in Writers, NEW c \in Subjects, NEW kind \in {"edit", "disable", "rotate", "delete"},
               NEW arg \in BOOLEAN, Ask(w, kind, c, arg)
        PROVE  ClientsTyped'
    <2>1. c \in Clients
      BY DEF ClientsAssumption
    <2>2. /\ call' = [call EXCEPT ![w] = [pc |-> "asked", kind |-> kind, id |-> c, arg |-> arg, row |-> None]]
          /\ call[w].pc = "idle"
      BY <1>b DEF Ask, Start
    <2>3. UNCHANGED <<tableVars, bootVars, originVars, minted, old, outside, wishVars>>
      BY <1>b DEF Ask
    <2> QED
      BY <1>0, <2>1, <2>2, <2>3, AskedIs DEF ClientsTyped, tableVars, bootVars, originVars, wishVars
  <1>c. ASSUME NEW w \in Writers, EditReads(w) PROVE ClientsTyped'
    <2>1. UNCHANGED <<client, held, admins, bootVars, originVars, minted, calls, outside, wishVars>>
      BY <1>c DEF EditReads
    <2>2. call[w].pc = "asked" /\ lock = None
      BY <1>c DEF EditReads, LockFree
    <2>3. CASE Mutable(call[w].id)
      <3>1. call[w].id \in Clients /\ client[call[w].id] \in RowSet
        BY <1>0, <2>2, <2>3 DEF ClientsTyped, Mutable, Exists, MaybeClientRows
      <3>2. /\ lock' = w /\ old' = old
            /\ call' = [call EXCEPT ![w] = [call[w] EXCEPT !.pc = "edit", !.row = client[call[w].id]]]
        BY <1>c, <2>3 DEF EditReads
      <3> DEFINE e == [call[w] EXCEPT !.pc = "edit", !.row = client[call[w].id]]
      <3>3. e \in Calls /\ e.pc = "edit" /\ e.row \in RowSet /\ e.id = call[w].id
        <4>1. PICK k \in Calls, r \in RowSet : k = call[w] /\ r = client[call[w].id]
          BY <1>0, <3>1 DEF ClientsTyped
        <4>2. e = [k EXCEPT !.pc = "edit", !.row = r]
          BY <4>1
        <4>3. /\ [k EXCEPT !.pc = "edit", !.row = r] \in Calls /\ [k EXCEPT !.pc = "edit", !.row = r].pc = "edit"
              /\ [k EXCEPT !.pc = "edit", !.row = r].row = r /\ [k EXCEPT !.pc = "edit", !.row = r].id = k.id
          BY DEF Calls, MaybeClientRows
        <4> HIDE DEF e
        <4> QED
          BY <4>1, <4>2, <4>3
      <3>4. call' = [call EXCEPT ![w] = e]
        BY <3>2
      <3> HIDE DEF e
      <3> QED
        BY <1>0, <2>1, <2>2, <3>1, <3>2, <3>3, <3>4 DEF ClientsTyped, ClientsAssumption, bootVars, originVars, wishVars
    <2>4. CASE ~Mutable(call[w].id)
      <3>1. Answer(w) /\ lock' = lock
        BY <1>c, <2>4 DEF EditReads
      <3> QED
        BY <1>0, <2>1, <2>2, <3>1, AnswerIs DEF ClientsTyped, bootVars, originVars, wishVars
    <2> QED
      BY <2>3, <2>4
  <1>d. ASSUME NEW w \in Writers, EditWrites(w) PROVE ClientsTyped'
    <2>1. Commit(w) /\ lock' = None /\ UNCHANGED <<admins, bootVars, calls, outside, contested>> /\ lock = w
      BY <1>0, <1>d DEF EditWrites, ClientsTyped
    <2> QED
      BY <1>0, <1>d, <2>1, CommitIs, EditWritesIs DEF ClientsTyped, bootVars, ClientsAssumption
  <1>e. ASSUME NEW w \in Writers, SetDisabled(w) PROVE ClientsTyped'
    <2>1. Commit(w) /\ Touch(call[w].id) /\ UNCHANGED <<admins, lock, applied, deployed, boots, minted, calls>>
      BY <1>e DEF SetDisabled
    <2>2. /\ call[w].id \in Clients /\ call[w].pc = "asked"
          /\ client' \in [Clients -> MaybeClientRows] /\ wish' \in [Clients -> MaybeClientRows]
      BY <1>e, SetDisabledIs
    <2>3. /\ call' \in [Writers -> Calls] /\ call'[w].pc \in {"idle", "refresh"} /\ old' \subseteq Writers
          /\ \A x \in Writers : x # w => call'[x] = call[x]
          /\ overtaken' \subseteq Writers \cup {Boot} /\ origins' = origins /\ earlier' = earlier
      BY <1>0, <2>1, CommitIs
    <2>4. /\ boot' \in StartUps /\ boot'.pc = boot.pc /\ boot'.file = boot.file /\ boot'.rows = boot.rows
          /\ outside' \subseteq Clients /\ contested' \subseteq Clients
      BY <1>0, <2>1, <2>2, TouchIs DEF ClientsTyped
    <2> QED
      BY <1>0, <2>1, <2>2, <2>3, <2>4 DEF ClientsTyped
  <1>f. ASSUME NEW w \in Writers, Rotate(w) PROVE ClientsTyped'
    <2>1. Answer(w) /\ Touch(call[w].id) /\ UNCHANGED <<held, admins, lock, applied, deployed, boots, originVars, calls>>
      BY <1>f DEF Rotate
    <2>2. /\ call[w].id \in Clients /\ call[w].pc = "asked" /\ minted' \in 0..MaxSecrets
          /\ client' \in [Clients -> MaybeClientRows] /\ wish' \in [Clients -> MaybeClientRows]
      BY <1>f, RotateIs
    <2>3. /\ call' \in [Writers -> Calls] /\ call'[w].pc = "idle" /\ old' \subseteq Writers
          /\ \A x \in Writers : x # w => call'[x] = call[x]
      BY <1>0, <2>1, AnswerIs
    <2>4. /\ boot' \in StartUps /\ boot'.pc = boot.pc /\ boot'.file = boot.file /\ boot'.rows = boot.rows
          /\ outside' \subseteq Clients /\ contested' \subseteq Clients
      BY <1>0, <2>1, <2>2, TouchIs DEF ClientsTyped
    <2> QED
      BY <1>0, <2>1, <2>2, <2>3, <2>4 DEF ClientsTyped, originVars
  <1>g. ASSUME NEW w \in Writers, Delete(w) PROVE ClientsTyped'
    <2>1. Commit(w) /\ Touch(call[w].id) /\ UNCHANGED <<admins, lock, applied, deployed, boots, minted, calls>>
      BY <1>g DEF Delete
    <2>2. call[w].pc = "asked" /\ call[w].id \in Clients
      BY <1>0, <1>g DEF Delete, ClientsTyped
    <2>3. /\ client' \in [Clients -> MaybeClientRows] /\ wish' \in [Clients -> MaybeClientRows]
      BY <1>0, <1>g DEF Delete, ClientsTyped, MaybeClientRows
    <2>4. /\ call' \in [Writers -> Calls] /\ call'[w].pc \in {"idle", "refresh"} /\ old' \subseteq Writers
          /\ \A x \in Writers : x # w => call'[x] = call[x]
          /\ overtaken' \subseteq Writers \cup {Boot} /\ origins' = origins /\ earlier' = earlier
      BY <1>0, <2>1, CommitIs
    <2>5. /\ boot' \in StartUps /\ boot'.pc = boot.pc /\ boot'.file = boot.file /\ boot'.rows = boot.rows
          /\ outside' \subseteq Clients /\ contested' \subseteq Clients
      BY <1>0, <2>1, <2>2, TouchIs DEF ClientsTyped
    <2> QED
      BY <1>0, <2>1, <2>2, <2>3, <2>4, <2>5 DEF ClientsTyped
  <1>h. ASSUME NEW w \in Writers, RefreshReads(w) PROVE ClientsTyped'
    <2>1. Enabled \in SUBSET Clients
      BY DEF Enabled
    <2>2. /\ call' = [call EXCEPT ![w] = [Idle EXCEPT !.pc = "install", !.row = Enabled]] /\ call[w].pc = "refresh"
          /\ earlier' = [earlier EXCEPT ![w] = Refreshing]
      BY <1>h DEF RefreshReads
    <2>3. UNCHANGED <<tableVars, bootVars, origins, overtaken, stale, minted, calls, old, outside, wishVars>>
      BY <1>h DEF RefreshReads
    <2>4. Refreshing \subseteq Writers \cup {Boot}
      BY DEF Refreshing
    <2> QED
      BY <1>0, <2>1, <2>2, <2>3, <2>4, InstallIs DEF ClientsTyped, tableVars, bootVars, wishVars
  <1>i. ASSUME NEW w \in Writers, RefreshFails(w) PROVE ClientsTyped'
    <2>1. /\ call' = [call EXCEPT ![w] = Idle] /\ call[w].pc = "refresh" /\ Unrefreshed
          /\ UNCHANGED <<tableVars, bootVars, minted, calls, old, outside, wishVars>>
      BY <1>i DEF RefreshFails
    <2> QED
      BY <1>0, <2>1, IdleIs DEF ClientsTyped, tableVars, bootVars, wishVars, Unrefreshed, Refreshing
  <1>j. ASSUME NEW w \in Writers, RefreshInstalls(w) PROVE ClientsTyped'
    <2>1. /\ call' = [call EXCEPT ![w] = Idle] /\ call[w].pc = "install" /\ origins' = call[w].row
          /\ overtaken' = ((overtaken \cup earlier[w]) \cap Refreshing) \ {w}
          /\ UNCHANGED <<tableVars, bootVars, earlier, minted, calls, old, outside, wishVars>>
      BY <1>j DEF RefreshInstalls, Installed
    <2> QED
      BY <1>0, <2>1, IdleIs DEF ClientsTyped, tableVars, bootVars, wishVars
  <1>k. ASSUME NEW u \in Admins, RemoveAdmin(u) PROVE ClientsTyped'
    <2> DEFINE theirs == {c \in Clients : Exists(c) /\ client[c].owner = u}
    <2>1. /\ client' = [c \in Clients |-> IF c \in theirs THEN None ELSE client[c]]
          /\ wish' = [c \in Clients |-> IF c \in theirs THEN None ELSE wish[c]]
          /\ outside' = outside \cup theirs /\ admins' = admins \ {u}
          /\ boot' = [boot EXCEPT !.clean = boot.clean \ theirs]
          /\ contested' \subseteq contested \cup theirs
      BY <1>k DEF RemoveAdmin
    <2>2. Unrefreshed /\ UNCHANGED <<lock, call, applied, deployed, boots, minted, calls, old>>
      BY <1>k DEF RemoveAdmin
    <2>3. /\ boot' \in StartUps /\ boot'.pc = boot.pc /\ boot'.file = boot.file /\ boot'.rows = boot.rows
      <3>1. boot \in StartUps
        BY <1>0 DEF ClientsTyped
      <3> HIDE DEF theirs
      <3> QED
        BY <2>1, <3>1 DEF StartUps
    <2>4. client' \in [Clients -> MaybeClientRows] /\ wish' \in [Clients -> MaybeClientRows]
      BY <1>0, <2>1 DEF ClientsTyped, MaybeClientRows
    <2> QED
      BY <1>0, <2>1, <2>2, <2>3, <2>4 DEF ClientsTyped, Unrefreshed, Refreshing
  <1>l. ASSUME NEW c \in Clients, Issue(c) PROVE ClientsTyped'
    BY <1>0, <1>l DEF Issue, ClientsTyped, bootVars, originVars, wishVars
  <1>m. ASSUME NEW f \in Files, NEW prune \in BOOLEAN, BootStart(f, prune) PROVE ClientsTyped'
    <2>1. UNCHANGED <<tableVars, call, applied, originVars, minted, calls, old, outside, wishVars>> /\ boot.pc = "off"
      BY <1>m DEF BootStart
    <2>2. boot' \in StartUps /\ boot'.pc \in {"origins", "lock"} /\ boot'.file = f
      <3>1. boot' = [pc |-> IF f = <<>> THEN "origins" ELSE "lock", file |-> f, prune |-> prune, rows |-> <<>>, clean |-> {}]
        BY <1>m DEF BootStart, Off
      <3>2. CASE f = <<>>
        BY <3>1, <3>2 DEF StartUps
      <3>3. CASE f # <<>>
        BY <3>1, <3>3 DEF StartUps
      <3> QED
        BY <3>2, <3>3
    <2> QED
      BY <1>0, <2>1, <2>2 DEF ClientsTyped, tableVars, originVars, wishVars
  <1>n. ASSUME BootReads PROVE ClientsTyped'
    <2>1. UNCHANGED <<client, held, admins, call, applied, deployed, boots, originVars, minted, calls, old, outside, wishVars>>
      BY <1>n DEF BootReads
    <2>2. boot.pc = "lock" /\ lock = None /\ lock' = Boot /\ boot' = [boot EXCEPT !.pc = "merge", !.rows = client, !.clean = Clients]
      BY <1>n DEF BootReads, LockFree
    <2>3. boot' \in StartUps /\ boot'.pc = "merge" /\ boot'.rows = client
      <3>1. boot \in StartUps /\ client \in [Clients -> MaybeClientRows]
        BY <1>0 DEF ClientsTyped
      <3> QED
        BY <2>2, <3>1 DEF StartUps
    <2> QED
      BY <1>0, <2>1, <2>2, <2>3 DEF ClientsTyped, originVars, wishVars, ClientsAssumption
  <1>o. ASSUME BootCommits PROVE ClientsTyped'
    <2>1. /\ boot.pc = "merge" /\ client' = [c \in Clients |-> Merged(c)] /\ lock' = None /\ applied' = boot.file
          /\ outside' = outside \ boot.clean /\ boot' = [boot EXCEPT !.pc = "origins"] /\ Unrefreshed
          /\ wish' = [c \in Clients |-> IF c \in DOMAIN boot.file \cup Orphans THEN None ELSE wish[c]]
          /\ UNCHANGED <<admins, call, deployed, boots, minted, calls, old, contested>>
      BY <1>o DEF BootCommits
    <2>2. boot' \in StartUps /\ boot'.pc = "origins" /\ boot.file \in Files \cup {<<>>}
      <3>1. boot \in StartUps
        BY <1>0 DEF ClientsTyped
      <3> QED
        BY <2>1, <3>1 DEF StartUps
    <2>3. client' \in [Clients -> MaybeClientRows]
      BY <2>1, MergedIs
    <2>4. wish' \in [Clients -> MaybeClientRows]
      BY <1>0, <2>1 DEF ClientsTyped, MaybeClientRows
    <2> QED
      BY <1>0, <2>1, <2>2, <2>3, <2>4 DEF ClientsTyped, Unrefreshed, Refreshing, ClientsAssumption
  <1>p. ASSUME BootRefreshes PROVE ClientsTyped'
    <2>1. UNCHANGED <<tableVars, call, applied, deployed, boots, originVars, minted, calls, old, outside, wishVars>>
      BY <1>p DEF BootRefreshes
    <2>2. boot' \in StartUps /\ boot'.pc = "serve" /\ boot'.rows \in SUBSET Clients /\ boot.pc = "origins"
      <3>1. boot \in StartUps /\ Enabled \in SUBSET Clients
        BY <1>0 DEF ClientsTyped, Enabled
      <3>2. boot' = [boot EXCEPT !.pc = "serve", !.rows = Enabled] /\ boot.pc = "origins"
        BY <1>p DEF BootRefreshes
      <3> QED
        BY <3>1, <3>2 DEF StartUps
    <2> QED
      BY <1>0, <2>1, <2>2 DEF ClientsTyped, tableVars, originVars, wishVars
  <1>q. ASSUME Serve PROVE ClientsTyped'
    <2>1. /\ boot.pc = "serve" /\ origins' = boot.rows /\ overtaken' = {}
          /\ earlier' = [x \in Writers \cup {Boot} |-> {}]
          /\ call' = [w \in Writers |-> IF call[w].pc \in {"refresh", "install"} THEN Idle ELSE call[w]]
          /\ old' \subseteq Writers /\ boot' = Off
          /\ UNCHANGED <<tableVars, applied, boots, minted, calls, outside, wishVars>>
      BY <1>q DEF Serve
    <2> QED
      BY <1>0, <2>1, IdleIs, OffIs DEF ClientsTyped, tableVars, wishVars
  <1>r. ASSUME BootFails PROVE ClientsTyped'
    <2>1. /\ lock' = (IF lock = Boot THEN None ELSE lock) /\ boot' = Off /\ overtaken' = overtaken \ {Boot}
          /\ UNCHANGED <<client, held, admins, call, applied, deployed, boots, origins, earlier, stale,
                         minted, calls, old, outside, wishVars>>
      BY <1>r DEF BootFails
    <2> QED
      BY <1>0, <2>1, OffIs DEF ClientsTyped, wishVars, ClientsAssumption
  <1>s. CASE UNCHANGED clientVars
    BY <1>0, <1>s DEF ClientsTyped, clientVars, tableVars, bootVars, originVars, wishVars
  <1> QED
    BY <1>a, <1>b, <1>c, <1>d, <1>e, <1>f, <1>g, <1>h, <1>i, <1>j, <1>k, <1>l, <1>m, <1>n, <1>o, <1>p, <1>q, <1>r, <1>s,
       ClientSteps

-----------------------------------------------------------------------------
\* The steps that write the table, and all the others.
LEMMA WritingSteps ==
  ASSUME [Next]_clientVars
  PROVE  \/ \E w \in Writers :
              \/ \E c \in Subjects, u \in Admins, public \in BOOLEAN : Create(w, c, u, public)
              \/ EditWrites(w) \/ SetDisabled(w) \/ Rotate(w) \/ Delete(w)
         \/ \E u \in Admins : RemoveAdmin(u)
         \/ \E c \in Clients : Issue(c)
         \/ BootCommits
         \/ UNCHANGED <<client, held, admins, outside, wish, contested, applied>>
  <1>1. ASSUME NEW w \in Writers, NEW c \in Subjects, NEW kind \in {"edit", "disable", "rotate", "delete"},
               NEW arg \in BOOLEAN, Ask(w, kind, c, arg)
        PROVE  UNCHANGED <<client, held, admins, outside, wish, contested, applied>>
    BY <1>1 DEF Ask, tableVars, bootVars, wishVars
  <1>2. ASSUME NEW w \in Writers, EditReads(w) \/ RefreshReads(w) \/ RefreshFails(w) \/ RefreshInstalls(w)
        PROVE  UNCHANGED <<client, held, admins, outside, wish, contested, applied>>
    BY <1>2 DEF EditReads, RefreshReads, RefreshFails, RefreshInstalls, tableVars, bootVars, wishVars
  <1>3. ASSUME NEW f \in Files, NEW prune \in BOOLEAN, BootStart(f, prune)
        PROVE  UNCHANGED <<client, held, admins, outside, wish, contested, applied>>
    BY <1>3 DEF BootStart, tableVars, wishVars
  <1>4. ASSUME BootReads \/ BootRefreshes \/ Serve \/ BootFails
        PROVE  UNCHANGED <<client, held, admins, outside, wish, contested, applied>>
    BY <1>4 DEF BootReads, BootRefreshes, Serve, BootFails, tableVars, wishVars
  <1>5. CASE UNCHANGED clientVars
    BY <1>5 DEF clientVars, tableVars, bootVars, wishVars
  <1> QED
    BY <1>1, <1>2, <1>3, <1>4, <1>5, ClientSteps

\* An edit that runs after a step ran before it, or begins with the row it found.
LEMMA EditBegins ==
  ASSUME ClientsAssumption, ClientsInv, [Next]_clientVars, NEW w \in Writers, call'[w].pc = "edit"
  PROVE  \/ call'[w] = call[w]
         \/ /\ call'[w].id \in Clients /\ Mutable(call'[w].id) /\ call'[w].row = client[call'[w].id]
            /\ UNCHANGED <<client, contested>>
  <1>0. ClientsTyped
    BY DEF ClientsInv
  <1>1. ASSUME NEW v \in Writers, NEW c \in Subjects, NEW kind \in {"edit", "disable", "rotate", "delete"},
               NEW arg \in BOOLEAN, Ask(v, kind, c, arg)
        PROVE  call'[w] = call[w]
    BY <1>0, <1>1 DEF Ask, Start, ClientsTyped
  <1>2. ASSUME NEW v \in Writers, EditReads(v)
        PROVE  \/ call'[w] = call[w]
               \/ /\ call'[w].id \in Clients /\ Mutable(call'[w].id) /\ call'[w].row = client[call'[w].id]
                  /\ UNCHANGED <<client, contested>>
    <2>1. CASE v # w
      BY <1>0, <1>2, <2>1 DEF EditReads, Answer, ClientsTyped
    <2>2. CASE v = w /\ Mutable(call[w].id)
      <3>1. call[w] \in Calls /\ call[w].id \in Clients
        BY <1>0, <1>2, <2>2 DEF EditReads, ClientsTyped
      <3>2. call'[w] = [call[w] EXCEPT !.pc = "edit", !.row = client[call[w].id]] /\ UNCHANGED <<client, contested>>
        BY <1>0, <1>2, <2>2 DEF EditReads, ClientsTyped, wishVars
      <3>3. call'[w].id = call[w].id /\ call'[w].row = client[call[w].id]
        BY <3>1, <3>2 DEF Calls
      <3> QED
        BY <2>2, <3>1, <3>2, <3>3
    <2>3. CASE v = w /\ ~Mutable(call[w].id)
      BY <1>0, <1>2, <2>3, IdleIs DEF EditReads, Answer, ClientsTyped
    <2> QED
      BY <2>1, <2>2, <2>3
  <1>3. ASSUME NEW v \in Writers, Commit(v) PROVE call'[w] = call[w]
    BY <1>0, <1>3, CommitIs
  <1>4. ASSUME NEW v \in Writers, NEW c \in Subjects, NEW u \in Admins, NEW public \in BOOLEAN, Create(v, c, u, public)
        PROVE  call'[w] = call[w]
    BY <1>3, <1>4 DEF Create
  <1>5. ASSUME NEW v \in Writers, EditWrites(v) \/ SetDisabled(v) \/ Delete(v) PROVE call'[w] = call[w]
    BY <1>3, <1>5 DEF EditWrites, SetDisabled, Delete
  <1>6. ASSUME NEW v \in Writers, Rotate(v) PROVE call'[w] = call[w]
    BY <1>0, <1>6, AnswerIs DEF Rotate
  <1>7. ASSUME NEW v \in Writers, RefreshFails(v) \/ RefreshInstalls(v) PROVE call'[w] = call[w]
    BY <1>0, <1>7, IdleIs DEF RefreshFails, RefreshInstalls, ClientsTyped
  <1>8. ASSUME NEW v \in Writers, RefreshReads(v) PROVE call'[w] = call[w]
    <2>1. Enabled \in SUBSET Clients
      BY DEF Enabled
    <2> QED
      BY <1>0, <1>8, <2>1, InstallIs DEF RefreshReads, ClientsTyped
  <1>9. ASSUME NEW u \in Admins, RemoveAdmin(u) PROVE call'[w] = call[w]
    BY <1>9 DEF RemoveAdmin
  <1>10. ASSUME NEW c \in Clients, Issue(c) PROVE call'[w] = call[w]
    BY <1>10 DEF Issue
  <1>11. ASSUME NEW f \in Files, NEW prune \in BOOLEAN, BootStart(f, prune) PROVE call'[w] = call[w]
    BY <1>11 DEF BootStart
  <1>12. ASSUME BootReads \/ BootCommits \/ BootRefreshes \/ BootFails PROVE call'[w] = call[w]
    BY <1>12 DEF BootReads, BootCommits, BootRefreshes, BootFails
  <1>13. ASSUME Serve PROVE call'[w] = call[w]
    BY <1>0, <1>13, IdleIs DEF Serve
  <1>14. CASE UNCHANGED clientVars
    BY <1>14 DEF clientVars
  <1> QED
    BY <1>1, <1>2, <1>4, <1>5, <1>6, <1>7, <1>8, <1>9, <1>10, <1>11, <1>12, <1>13, <1>14, ClientSteps

\* A reconciliation at work after a step was before it, or has just read the rows.
LEMMA MergeBegins ==
  ASSUME ClientsAssumption, ClientsInv, [Next]_clientVars, boot'.pc = "merge"
  PROVE  \/ boot' = boot
         \/ boot'.rows = client /\ boot'.clean = Clients /\ client' = client
         \/ \E w \in Writers : SetDisabled(w) \/ Rotate(w)
         \/ \E u \in Admins : RemoveAdmin(u)
  <1>0. ClientsTyped
    BY DEF ClientsInv
  <1>1. ASSUME NEW w \in Writers, NEW c \in Subjects, NEW kind \in {"edit", "disable", "rotate", "delete"},
               NEW arg \in BOOLEAN, Ask(w, kind, c, arg)
        PROVE  boot' = boot
    BY <1>1 DEF Ask, bootVars
  <1>2. ASSUME NEW w \in Writers, EditReads(w) \/ RefreshReads(w) \/ RefreshFails(w) \/ RefreshInstalls(w) \/ EditWrites(w)
        PROVE  boot' = boot
    BY <1>2 DEF EditReads, RefreshReads, RefreshFails, RefreshInstalls, EditWrites, bootVars
  <1>3. ASSUME NEW w \in Writers, NEW c \in Subjects, NEW u \in Admins, NEW public \in BOOLEAN, Create(w, c, u, public)
        PROVE  boot' = boot
    BY <1>3 DEF Create, bootVars
  <1>4. ASSUME NEW w \in Writers, Delete(w) PROVE FALSE
    <2>1. lock = None /\ call[w].id \in Clients /\ Touch(call[w].id)
      BY <1>0, <1>4 DEF Delete, LockFree, ClientsTyped
    <2>2. boot.pc = "merge"
      BY <1>0, <2>1, TouchIs
    <2> QED
      BY <1>0, <2>1, <2>2 DEF ClientsTyped, ClientsAssumption
  <1>5. ASSUME NEW c \in Clients, Issue(c) PROVE boot' = boot
    BY <1>5 DEF Issue, bootVars
  <1>6. ASSUME NEW f \in Files, NEW prune \in BOOLEAN, BootStart(f, prune) PROVE FALSE
    BY <1>6 DEF BootStart, Off
  <1>7. ASSUME BootReads PROVE boot'.rows = client /\ boot'.clean = Clients /\ client' = client
    BY <1>0, <1>7 DEF BootReads, ClientsTyped, StartUps
  <1>8. ASSUME BootCommits \/ BootRefreshes PROVE FALSE
    BY <1>0, <1>8 DEF BootCommits, BootRefreshes, ClientsTyped, StartUps
  <1>9. ASSUME Serve \/ BootFails PROVE FALSE
    BY <1>9, OffIs DEF Serve, BootFails
  <1>10. CASE UNCHANGED clientVars
    BY <1>10 DEF clientVars, bootVars
  <1> QED
    BY <1>1, <1>2, <1>3, <1>4, <1>5, <1>6, <1>7, <1>8, <1>9, <1>10, ClientSteps

\* What the removal of an administrator takes.
LEMMA RemovalIs ==
  ASSUME ClientsInv, NEW u \in Admins, RemoveAdmin(u)
  PROVE  LET theirs == {c \in Clients : Exists(c) /\ client[c].owner = u} IN
         /\ \A c \in Clients \ theirs : client'[c] = client[c] /\ wish'[c] = wish[c]
         /\ \A c \in theirs : client'[c] = None /\ wish'[c] = None
         /\ outside' = outside \cup theirs /\ held' = held \ theirs /\ admins' = admins \ {u} /\ applied' = applied
         /\ contested' = contested \cup (theirs \cap {call[w].id : w \in {x \in Writers : call[x].pc = "edit"}})
         /\ boot'.pc = boot.pc /\ boot'.rows = boot.rows /\ boot'.file = boot.file /\ boot'.clean = boot.clean \ theirs
         /\ Unrefreshed /\ call' = call
  <1> DEFINE theirs == {c \in Clients : Exists(c) /\ client[c].owner = u}
  <1>1. /\ client' = [c \in Clients |-> IF c \in theirs THEN None ELSE client[c]]
        /\ wish' = [c \in Clients |-> IF c \in theirs THEN None ELSE wish[c]]
        /\ outside' = outside \cup theirs /\ held' = held \ theirs /\ admins' = admins \ {u} /\ applied' = applied
        /\ boot' = [boot EXCEPT !.clean = boot.clean \ theirs]
        /\ contested' = contested \cup (theirs \cap {call[w].id : w \in {x \in Writers : call[x].pc = "edit"}})
        /\ Unrefreshed /\ call' = call
    BY DEF RemoveAdmin
  <1>2. boot \in StartUps
    BY DEF ClientsInv, ClientsTyped
  <1> HIDE DEF theirs
  <1>3. boot'.pc = boot.pc /\ boot'.rows = boot.rows /\ boot'.file = boot.file /\ boot'.clean = boot.clean \ theirs
    BY <1>1, <1>2 DEF StartUps
  <1>4. theirs \subseteq Clients
    BY DEF theirs
  <1>5. /\ \A c \in Clients \ theirs : client'[c] = client[c] /\ wish'[c] = wish[c]
        /\ \A c \in theirs : client'[c] = None /\ wish'[c] = None
    BY <1>1, <1>4
  <1> QED
    BY <1>1, <1>3, <1>5 DEF theirs

-----------------------------------------------------------------------------
\* A row that is created is a new one, of an administrator.
LEMMA CreateIs ==
  ASSUME ClientsAssumption, ClientsInv, NEW w \in Writers, NEW c \in Subjects, NEW u \in Admins,
         NEW public \in BOOLEAN, Create(w, c, u, public)
  PROVE  /\ c \in Clients /\ ~Exists(c) /\ u \in admins /\ lock = None
         /\ client'[c] \in RowSet /\ client'[c].owner = u /\ wish'[c] = client'[c]
         /\ \A d \in Clients : d # c => client'[d] = client[d] /\ wish'[d] = wish[d]
         /\ contested' = contested \ {c}
         /\ UNCHANGED <<held, admins, lock, boot, applied, outside>>
  <1> DEFINE r == [owner |-> u, disabled |-> FALSE, secret |-> IF public THEN 0 ELSE minted + 1]
  <1>1. c \in Clients /\ client \in [Clients -> MaybeClientRows] /\ wish \in [Clients -> MaybeClientRows]
    BY DEF ClientsInv, ClientsTyped, ClientsAssumption
  <1>2. r \in RowSet /\ r.owner = u
    BY DEF Create, ClientsInv, ClientsTyped, ClientsAssumption, RowSet
  <1>3. client' = [client EXCEPT ![c] = r] /\ wish' = [wish EXCEPT ![c] = r]
    BY DEF Create
  <1> HIDE DEF r
  <1>4. /\ client'[c] = r /\ wish'[c] = r
        /\ \A d \in Clients : d # c => client'[d] = client[d] /\ wish'[d] = wish[d]
    BY <1>1, <1>3
  <1>5. /\ ~Exists(c) /\ u \in admins /\ lock = None /\ contested' = contested \ {c}
        /\ UNCHANGED <<held, admins, lock, boot, applied, outside>>
    BY DEF Create, LockFree, bootVars
  <1> QED
    BY <1>1, <1>2, <1>4, <1>5

LEMMA DeleteIs ==
  ASSUME ClientsInv, NEW w \in Writers, Delete(w)
  PROVE  LET c == call[w].id IN
         /\ c \in Clients /\ lock = None
         /\ client'[c] = None /\ wish'[c] = None /\ held' = held \ {c}
         /\ \A d \in Clients : d # c => client'[d] = client[d] /\ wish'[d] = wish[d]
         /\ Touch(c) /\ Commit(w) /\ UNCHANGED <<admins, lock, applied>>
  BY DEF Delete, LockFree, ClientsInv, ClientsTyped

\* Rows stay those of administrators who are there, and tokens of rows.
LEMMA RowsStep ==
  ASSUME ClientsAssumption, ClientsInv, [Next]_clientVars
  PROVE  RowsInv'
  <1>0. ClientsTyped /\ RowsInv /\ EditInv
    BY DEF ClientsInv
  <1>1. None \notin RowSet
    BY DEF ClientsAssumption
  <1> USE DEF RowsInv, Mutable, Exists
  <1>2. ASSUME NEW w \in Writers, NEW c \in Subjects, NEW u \in Admins, NEW public \in BOOLEAN, Create(w, c, u, public)
        PROVE  RowsInv'
    BY <1>0, <1>1, <1>2, CreateIs
  <1>3. ASSUME NEW w \in Writers, EditWrites(w) PROVE RowsInv'
    <2>1. admins' = admins
      BY <1>3 DEF EditWrites
    <2>2. Exists(call[w].id) => client[call[w].id].owner = call[w].row.owner /\ call[w].row.owner # File
      BY <1>0, <1>3, EditWritesIs DEF EditInv
    <2> QED
      BY <1>0, <1>1, <1>3, <2>1, <2>2, EditWritesIs
  <1>4. ASSUME NEW w \in Writers, SetDisabled(w) PROVE RowsInv'
    <2>1. held' \subseteq held /\ admins' = admins
      BY <1>4 DEF SetDisabled
    <2> QED
      BY <1>0, <1>1, <1>4, <2>1, SetDisabledIs
  <1>5. ASSUME NEW w \in Writers, Rotate(w) PROVE RowsInv'
    <2>1. held' = held /\ admins' = admins
      BY <1>5 DEF Rotate
    <2> QED
      BY <1>0, <1>1, <1>5, <2>1, RotateIs
  <1>6. ASSUME NEW w \in Writers, Delete(w) PROVE RowsInv'
    BY <1>0, <1>6, DeleteIs
  <1>7. ASSUME NEW u \in Admins, RemoveAdmin(u) PROVE RowsInv'
    BY <1>0, <1>7, RemovalIs
  <1>8. ASSUME NEW c \in Clients, Issue(c) PROVE RowsInv'
    BY <1>0, <1>8 DEF Issue, Enabled
  <1>9. ASSUME BootCommits PROVE RowsInv'
    <2>1. /\ boot.pc = "merge" /\ client' = [c \in Clients |-> Merged(c)] /\ held' = held \ Orphans /\ admins' = admins
      BY <1>9 DEF BootCommits
    <2>2. \A c \in Clients : client'[c] = Merged(c)
      BY <2>1
    <2> QED
      BY <1>0, <2>1, <2>2, MergedIs
  <1>10. CASE UNCHANGED <<client, held, admins, outside, wish, contested, applied>>
    BY <1>0, <1>10
  <1> QED
    BY <1>2, <1>3, <1>4, <1>5, <1>6, <1>7, <1>8, <1>9, <1>10, WritingSteps

\* An edit keeps its row's owner in hand: what could change it waits for the lock.
LEMMA EditStep ==
  ASSUME ClientsAssumption, ClientsInv, ClientsTyped', [Next]_clientVars
  PROVE  EditInv'
  <1>0. ClientsTyped /\ EditInv
    BY DEF ClientsInv
  <1> SUFFICES ASSUME NEW w \in Writers, call'[w].pc = "edit"
               PROVE  /\ call'[w].row.owner # File
                      /\ client'[call'[w].id] # None => client'[call'[w].id].owner = call'[w].row.owner
    BY DEF EditInv, Exists
  <1>1. CASE call'[w] # call[w]
    BY <1>1, EditBegins DEF Mutable, Exists
  <1>2. CASE call'[w] = call[w]
    <2>1. /\ lock = w /\ lock' = w /\ lock # None /\ lock # Boot /\ call[w].id \in Clients
          /\ call[w].row.owner # File
          /\ Exists(call[w].id) => client[call[w].id].owner = call[w].row.owner
      BY <1>0, <1>2 DEF ClientsTyped, EditInv, ClientsAssumption
    <2>2. ASSUME NEW v \in Writers, NEW c \in Subjects, NEW u \in Admins, NEW public \in BOOLEAN, Create(v, c, u, public)
          PROVE  FALSE
      BY <2>1, <2>2, CreateIs
    <2>3. ASSUME NEW v \in Writers, EditWrites(v) PROVE FALSE
      BY <2>1, <2>3 DEF EditWrites
    <2>4. ASSUME NEW v \in Writers, Delete(v) PROVE FALSE
      BY <2>1, <2>4, DeleteIs
    <2>5. ASSUME BootCommits PROVE FALSE
      BY <1>0, <2>1, <2>5 DEF BootCommits, ClientsTyped
    <2>6. ASSUME NEW v \in Writers, SetDisabled(v) \/ Rotate(v)
          PROVE  client'[call[w].id] # None => Exists(call[w].id) /\ client'[call[w].id].owner = client[call[w].id].owner
      BY <1>0, <2>1, <2>6, SetDisabledIs, RotateIs DEF Exists
    <2>7. ASSUME NEW u \in Admins, RemoveAdmin(u)
          PROVE  client'[call[w].id] # None => client'[call[w].id] = client[call[w].id]
      BY <2>1, <2>7, RemovalIs
    <2>8. ASSUME NEW c \in Clients, Issue(c) PROVE client' = client
      BY <2>8 DEF Issue
    <2> QED
      BY <1>2, <2>1, <2>2, <2>3, <2>4, <2>5, <2>6, <2>7, <2>8, WritingSteps DEF Exists
  <1> QED
    BY <1>1, <1>2

\* A reconciliation under the lock is only overtaken by calls that do not wait.
LEMMA MergeStep ==
  ASSUME ClientsAssumption, ClientsInv, [Next]_clientVars
  PROVE  MergeInv'
  <1>0. ClientsTyped /\ MergeInv
    BY DEF ClientsInv
  <1>a. None \notin RowSet
    BY DEF ClientsAssumption
  <1> SUFFICES ASSUME boot'.pc = "merge" PROVE MergeInv'
    BY DEF MergeInv
  <1> USE DEF MergeInv, Exists
  <1>1. CASE boot'.rows = client /\ boot'.clean = Clients /\ client' = client
    BY <1>1
  <1>2. ASSUME NEW w \in Writers, SetDisabled(w) PROVE MergeInv'
    <2>1. Touch(call[w].id) /\ call[w].id \in Clients
      BY <1>2, SetDisabledIs DEF SetDisabled
    <2> QED
      BY <1>0, <1>a, <1>2, <2>1, SetDisabledIs, TouchIs
  <1>3. ASSUME NEW w \in Writers, Rotate(w) PROVE MergeInv'
    <2>1. Touch(call[w].id) /\ call[w].id \in Clients
      BY <1>3, RotateIs DEF Rotate
    <2> QED
      BY <1>0, <1>a, <1>3, <2>1, RotateIs, TouchIs
  <1>4. ASSUME NEW u \in Admins, RemoveAdmin(u) PROVE MergeInv'
    BY <1>0, <1>4, RemovalIs
  <1>5. CASE boot' = boot
    <2>1. boot.pc = "merge" /\ lock = Boot
      BY <1>0, <1>5 DEF ClientsTyped
    <2>2. ASSUME NEW w \in Writers, NEW c \in Subjects, NEW u \in Admins, NEW public \in BOOLEAN, Create(w, c, u, public)
          PROVE  FALSE
      BY <2>1, <2>2, CreateIs DEF ClientsAssumption
    <2>3. ASSUME NEW w \in Writers, EditWrites(w) PROVE FALSE
      BY <1>0, <2>1, <2>3 DEF EditWrites, ClientsTyped, ClientsAssumption
    <2>4. ASSUME NEW w \in Writers, Delete(w) PROVE FALSE
      BY <2>1, <2>4, DeleteIs DEF ClientsAssumption
    <2>5. ASSUME BootCommits PROVE FALSE
      BY <1>0, <1>5, <2>1, <2>5 DEF BootCommits, ClientsTyped, StartUps
    <2>6. ASSUME NEW c \in Clients, Issue(c) PROVE MergeInv'
      BY <1>0, <1>5, <2>6 DEF Issue
    <2>7. CASE UNCHANGED <<client, held, admins, outside, wish, contested, applied>>
      BY <1>0, <1>5, <2>7
    <2> QED
      BY <1>2, <1>3, <1>4, <2>2, <2>3, <2>4, <2>5, <2>6, <2>7, WritingSteps
  <1> QED
    BY <1>1, <1>2, <1>3, <1>4, <1>5, MergeBegins

\* The rows of the file follow it: what is written without the lock is counted.
LEMMA FileStep ==
  ASSUME ClientsAssumption, ClientsInv, [Next]_clientVars
  PROVE  FileRowsFollowTheFile'
  <1>0. ClientsTyped /\ EditInv /\ FileRowsFollowTheFile
    BY DEF ClientsInv
  <1>a. None \notin RowSet
    BY DEF ClientsAssumption
  \* A row of a client the file names, and a row that is not to be disabled.
  <1>b. \A c \in Clients \ outside : c \in DOMAIN applied => Exists(c) /\ client[c].owner = File
    <2>1. applied \in Files \cup {<<>>}
      BY <1>0 DEF ClientsTyped
    <2> QED
      BY <1>0, <1>a, <2>1, FileRowIs DEF FileRowsFollowTheFile, Exists
  \* Who writes no row of the file that is not counted keeps the file.
  <1>c. ASSUME applied' = applied, outside \subseteq outside',
               \A c \in Clients \ outside' :
                    \/ client'[c] = client[c]
                    \/ /\ ~(Exists(c) /\ client[c].owner = File)
                       /\ client'[c] = None \/ client'[c].owner # File
        PROVE  FileRowsFollowTheFile'
    BY <1>0, <1>b, <1>c DEF FileRowsFollowTheFile, FileRow, Exists
  <1>1. ASSUME NEW w \in Writers, NEW c \in Subjects, NEW u \in Admins, NEW public \in BOOLEAN, Create(w, c, u, public)
        PROVE  FileRowsFollowTheFile'
    <2>1. u # File
      BY DEF ClientsAssumption
    <2> QED
      BY <1>1, <1>c, <2>1, CreateIs
  <1>2. ASSUME NEW w \in Writers, EditWrites(w) PROVE FileRowsFollowTheFile'
    <2>1. applied' = applied /\ outside' = outside
      BY <1>2 DEF EditWrites, bootVars
    <2>2. /\ call[w].row.owner # File
          /\ Exists(call[w].id) => client[call[w].id].owner = call[w].row.owner
      BY <1>0, <1>2, EditWritesIs DEF EditInv
    <2> QED
      BY <1>2, <1>c, <2>1, <2>2, EditWritesIs
  <1>3. ASSUME NEW w \in Writers, SetDisabled(w) PROVE FileRowsFollowTheFile'
    <2>1. Touch(call[w].id) /\ applied' = applied
      BY <1>3 DEF SetDisabled
    <2> QED
      BY <1>0, <1>3, <1>c, <2>1, SetDisabledIs, TouchIs
  <1>4. ASSUME NEW w \in Writers, Rotate(w) PROVE FileRowsFollowTheFile'
    <2>1. Touch(call[w].id) /\ applied' = applied
      BY <1>4 DEF Rotate
    <2> QED
      BY <1>0, <1>4, <1>c, <2>1, RotateIs, TouchIs
  <1>5. ASSUME NEW w \in Writers, Delete(w) PROVE FileRowsFollowTheFile'
    BY <1>0, <1>5, <1>c, DeleteIs, TouchIs
  <1>6. ASSUME NEW u \in Admins, RemoveAdmin(u) PROVE FileRowsFollowTheFile'
    BY <1>0, <1>6, <1>c, RemovalIs
  <1>7. ASSUME NEW c \in Clients, Issue(c) PROVE FileRowsFollowTheFile'
    BY <1>7, <1>c DEF Issue, bootVars
  <1>8. ASSUME BootCommits PROVE FileRowsFollowTheFile'
    <2>1. /\ boot.pc = "merge" /\ client' = [c \in Clients |-> Merged(c)] /\ applied' = boot.file
          /\ outside' = outside \ boot.clean
      BY <1>8 DEF BootCommits
    <2>2. \A c \in Clients : client'[c] = Merged(c)
      BY <2>1
    <2>3. ASSUME NEW c \in Clients \ outside'
          PROVE  IF c \in DOMAIN boot.file THEN client'[c] = FileRow(boot.file, c)
                 ELSE client'[c] # None /\ client'[c].owner = File => client'[c].disabled
      BY <2>1, <2>2, MergedIs
    <2> QED
      BY <2>1, <2>3 DEF FileRowsFollowTheFile, Exists, FileRow
  <1>9. CASE UNCHANGED <<client, held, admins, outside, wish, contested, applied>>
    BY <1>9, <1>c
  <1> QED
    BY <1>1, <1>2, <1>3, <1>4, <1>5, <1>6, <1>7, <1>8, <1>9, WritingSteps

\* What was asked for is what the row has.
LEMMA WishStep ==
  ASSUME ClientsAssumption, ClientsInv, ClientsTyped', [Next]_clientVars
  PROVE  WishInv'
  <1>0. ClientsTyped /\ EditInv /\ WishInv
    BY DEF ClientsInv
  <1>a. None \notin RowSet /\ File \notin Admins
    BY DEF ClientsAssumption
  <1> DEFINE Wished(c) == client[c] # None /\ client[c].owner # File =>
        /\ wish[c] # None
        /\ c \notin contested => client[c].disabled = wish[c].disabled /\ client[c].secret = wish[c].secret
  <1>b. \A c \in Clients : Wished(c)
    BY <1>0 DEF WishInv, LastCallHolds, Mutable, Exists
  <1>c. ASSUME \A c \in Clients : Wished(c)',
               \A w \in Writers : call'[w].pc = "edit" /\ call'[w].id \notin contested' =>
                    client'[call'[w].id] = call'[w].row
        PROVE  WishInv'
    BY <1>c DEF WishInv, LastCallHolds, Mutable, Exists
  <1>d. ASSUME contested \subseteq contested',
               \A c \in Clients \ contested' : client'[c] = client[c] \/ \A w \in Writers : ~(call[w].pc = "edit" /\ call[w].id = c)
        PROVE  \A w \in Writers : call'[w].pc = "edit" /\ call'[w].id \notin contested' =>
                    client'[call'[w].id] = call'[w].row
    <2> SUFFICES ASSUME NEW w \in Writers, call'[w].pc = "edit", call'[w].id \notin contested'
                 PROVE  client'[call'[w].id] = call'[w].row
      OBVIOUS
    <2>1. CASE call'[w] = call[w]
      <3>1. call[w].pc = "edit" /\ call[w].id \in Clients /\ client[call[w].id] = call[w].row
        BY <1>0, <1>d, <2>1 DEF WishInv, ClientsTyped
      <3> QED
        BY <1>d, <2>1, <3>1
    <2>2. CASE call'[w] # call[w]
      BY <2>2, EditBegins
    <2> QED
      BY <2>1, <2>2
  <1>1. ASSUME NEW w \in Writers, NEW c \in Subjects, NEW u \in Admins, NEW public \in BOOLEAN, Create(w, c, u, public)
        PROVE  WishInv'
    <2>1. \A d \in Clients : Wished(d)'
      BY <1>a, <1>b, <1>1, CreateIs
    <2>2. \A x \in Writers : call'[x].pc # "edit"
      <3>1. lock' = None
        BY <1>1, CreateIs
      <3> QED
        BY <3>1 DEF ClientsTyped, ClientsAssumption
    <2> QED
      BY <1>c, <2>1, <2>2
  <1>2. ASSUME NEW w \in Writers, EditWrites(w) PROVE WishInv'
    <2>0. PICK c \in Clients : c = call[w].id
      BY <1>2, EditWritesIs
    <2>1. contested' = contested /\ lock' = None
      BY <1>2 DEF EditWrites
    <2>2. /\ call[w].row.owner # File
          /\ Exists(c) => client[c].owner = call[w].row.owner
          /\ c \notin contested => client[c] = call[w].row
      BY <1>0, <1>2, <2>0, EditWritesIs DEF EditInv, WishInv
    <2>3. \A d \in Clients : d # c => Wished(d)'
      BY <1>b, <1>2, <2>0, <2>1, EditWritesIs
    <2>4. Wished(c)'
      <3>1. CASE ~Exists(c)
        BY <1>2, <2>0, <3>1, EditWritesIs DEF Exists
      <3>2. CASE Exists(c) /\ c \in contested
        BY <1>a, <1>2, <2>0, <2>1, <3>2, EditWritesIs
      <3>3. CASE Exists(c) /\ c \notin contested
        <4>1. /\ client[c] = call[w].row /\ client[c] # None /\ client[c].owner # File
          BY <2>2, <3>3 DEF Exists
        <4>2. client[c].disabled = wish[c].disabled /\ client[c].secret = wish[c].secret
          BY <1>2, <1>b, <3>3, <4>1, EditWritesIs
        <4>3. /\ client'[c].disabled = client[c].disabled /\ wish'[c].disabled = wish[c].disabled
              /\ wish'[c].secret = client'[c].secret /\ wish'[c] \in RowSet
          BY <1>2, <2>0, <2>2, <3>3, <4>1, <4>2, EditWritesIs
        <4> QED
          BY <1>a, <4>2, <4>3
      <3> QED
        BY <3>1, <3>2, <3>3
    <2>5. \A x \in Writers : call'[x].pc # "edit"
      BY <2>1 DEF ClientsTyped, ClientsAssumption
    <2> QED
      BY <1>c, <2>3, <2>4, <2>5
  <1>3. ASSUME NEW w \in Writers, SetDisabled(w) PROVE WishInv'
    <2>1. Touch(call[w].id) /\ call[w].id \in Clients
      BY <1>3, SetDisabledIs DEF SetDisabled
    <2>2. \A c \in Clients : Wished(c)'
      BY <1>0, <1>a, <1>b, <1>3, <2>1, SetDisabledIs, TouchIs DEF Exists
    <2> QED
      BY <1>0, <1>c, <1>d, <1>3, <2>1, <2>2, SetDisabledIs, TouchIs
  <1>4. ASSUME NEW w \in Writers, Rotate(w) PROVE WishInv'
    <2>1. Touch(call[w].id) /\ call[w].id \in Clients
      BY <1>4, RotateIs DEF Rotate
    <2>2. \A c \in Clients : Wished(c)'
      BY <1>0, <1>a, <1>b, <1>4, <2>1, RotateIs, TouchIs DEF Exists
    <2> QED
      BY <1>0, <1>c, <1>d, <1>4, <2>1, <2>2, RotateIs, TouchIs
  <1>5. ASSUME NEW w \in Writers, Delete(w) PROVE WishInv'
    <2>1. \A c \in Clients : Wished(c)'
      BY <1>0, <1>b, <1>5, DeleteIs, TouchIs
    <2> QED
      BY <1>0, <1>c, <1>d, <1>5, <2>1, DeleteIs, TouchIs
  <1>6. ASSUME NEW u \in Admins, RemoveAdmin(u) PROVE WishInv'
    <2>1. \A c \in Clients : Wished(c)'
      BY <1>b, <1>6, RemovalIs
    <2>2. \A c \in Clients \ contested' : client'[c] = client[c] \/ \A w \in Writers : ~(call[w].pc = "edit" /\ call[w].id = c)
      BY <1>6, RemovalIs
    <2> QED
      BY <1>c, <1>d, <1>6, <2>1, <2>2, RemovalIs
  <1>7. ASSUME NEW c \in Clients, Issue(c) PROVE WishInv'
    <2>1. UNCHANGED <<client, wish, contested>>
      BY <1>7 DEF Issue, wishVars
    <2> QED
      BY <1>b, <1>c, <1>d, <2>1
  <1>8. ASSUME BootCommits PROVE WishInv'
    <2>1. /\ boot.pc = "merge" /\ client' = [c \in Clients |-> Merged(c)] /\ lock' = None /\ contested' = contested
          /\ wish' = [c \in Clients |-> IF c \in DOMAIN boot.file \cup Orphans THEN None ELSE wish[c]]
      BY <1>8 DEF BootCommits
    <2>2. ASSUME NEW c \in Clients PROVE Wished(c)'
      <3>1. client'[c] = Merged(c) /\ (c \notin DOMAIN boot.file \cup Orphans => wish'[c] = wish[c])
        BY <2>1
      <3> QED
        BY <1>b, <2>1, <3>1, MergedIs
    <2>3. \A x \in Writers : call'[x].pc # "edit"
      BY <2>1 DEF ClientsTyped, ClientsAssumption
    <2> QED
      BY <1>c, <2>2, <2>3
  <1>9. CASE UNCHANGED <<client, held, admins, outside, wish, contested, applied>>
    BY <1>b, <1>c, <1>d, <1>9
  <1> QED
    BY <1>1, <1>2, <1>3, <1>4, <1>5, <1>6, <1>7, <1>8, <1>9, WritingSteps

-----------------------------------------------------------------------------
(* The cache of origins.                                                   *)

\* A commit brings a refresh with it, or says that there is none.
LEMMA CommitRefreshes ==
  ASSUME ClientsAssumption, ClientsInv, NEW w \in Writers, call[w].pc \in {"idle", "asked", "edit"}, Commit(w),
         boot'.pc = boot.pc
  PROVE  RefreshInv'
  <1>0. ClientsTyped /\ RefreshInv
    BY DEF ClientsInv
  <1>1. /\ call'[w].pc \in {"idle", "refresh"} /\ earlier' = earlier
        /\ \A x \in Writers : x # w => call'[x] = call[x]
    BY <1>0, CommitIs
  <1>2. CASE /\ call'[w].pc = "refresh" /\ stale' = stale
             /\ overtaken' = overtaken \cup (IF boot.pc = "serve" THEN {Boot} ELSE {})
    BY <1>0, <1>1, <1>2 DEF RefreshInv, OthersToCome
  <1>3. CASE Unrefreshed
    BY <1>0, <1>1, <1>3 DEF RefreshInv, Unrefreshed, Refreshing
  <1> QED
    BY <1>0, <1>2, <1>3, CommitIs

\* What leaves the rows, the cache and the refreshes alone keeps RefreshInv.
LEMMA RefreshStill ==
  ASSUME ClientsInv, Enabled' = Enabled, UNCHANGED <<origins, earlier, stale>>,
         \A x \in Writers : call'[x].pc \in {"refresh", "install"} \/ call[x].pc \in {"refresh", "install"} => call'[x] = call[x],
         \/ boot'.pc # "serve" /\ overtaken' \in {overtaken, overtaken \ {Boot}} /\ Boot \notin Writers
         \/ boot'.pc = boot.pc /\ boot'.rows = boot.rows /\ overtaken' = overtaken
  PROVE  RefreshInv'
  <1>1. RefreshInv
    BY DEF ClientsInv
  <1>2. \A w \in Writers : w \in overtaken <=> w \in overtaken'
    OBVIOUS
  <1>3. \A w \in Writers : OthersToCome(w) => OthersToCome(w)'
    BY DEF OthersToCome
  <1>4. \A w \in Writers : call'[w].pc = "install" =>
            w \notin earlier'[w] /\ (w \notin overtaken' => call'[w].row = Enabled' \/ OthersToCome(w)')
    BY <1>1, <1>2, <1>3 DEF RefreshInv
  <1>5. boot'.pc = "serve" /\ Boot \notin overtaken' => boot'.rows = Enabled'
    BY <1>1 DEF RefreshInv
  <1>6. ~stale' => origins' = Enabled' \/ \E x \in Writers : call'[x].pc \in {"refresh", "install"}
    BY <1>1 DEF RefreshInv
  <1> QED
    BY <1>4, <1>5, <1>6 DEF RefreshInv

LEMMA RefreshStep ==
  ASSUME ClientsAssumption, ClientsInv, [Next]_clientVars
  PROVE  RefreshInv'
  <1>0. ClientsTyped /\ RefreshInv
    BY DEF ClientsInv
  <1>z. Boot \notin Writers
    BY DEF ClientsAssumption
  <1>a. ASSUME NEW w \in Writers, NEW c \in Subjects, NEW u \in Admins, NEW public \in BOOLEAN, Create(w, c, u, public)
        PROVE  RefreshInv'
    BY <1>a, CommitRefreshes DEF Create, bootVars
  <1>b. ASSUME NEW w \in Writers, NEW c \in Subjects, NEW kind \in {"edit", "disable", "rotate", "delete"},
               NEW arg \in BOOLEAN, Ask(w, kind, c, arg)
        PROVE  RefreshInv'
    <2>1. /\ call' = [call EXCEPT ![w] = [pc |-> "asked", kind |-> kind, id |-> c, arg |-> arg, row |-> None]]
          /\ call[w].pc = "idle" /\ UNCHANGED <<client, boot, origins, earlier, overtaken, stale>>
      BY <1>b DEF Ask, Start, tableVars, bootVars, originVars
    <2>2. Enabled' = Enabled
      BY <2>1 DEF Enabled, Exists
    <2>3. \A x \in Writers : call'[x].pc \in {"refresh", "install"} \/ call[x].pc \in {"refresh", "install"} => call'[x] = call[x]
      BY <1>0, <2>1 DEF ClientsTyped
    <2> QED
      BY <2>1, <2>2, <2>3, RefreshStill
  <1>c. ASSUME NEW w \in Writers, EditReads(w) PROVE RefreshInv'
    <2>1. call[w].pc = "asked" /\ UNCHANGED <<client, boot, origins, earlier, overtaken, stale>>
      BY <1>c DEF EditReads, bootVars, originVars
    <2>2. Enabled' = Enabled
      BY <2>1 DEF Enabled, Exists
    <2>3. call'[w].pc \in {"edit", "idle"} /\ \A x \in Writers : x # w => call'[x] = call[x]
      <3>1. call \in [Writers -> Calls]
        BY <1>0 DEF ClientsTyped
      <3>2. CASE Mutable(call[w].id)
        <4>1. call' = [call EXCEPT ![w] = [call[w] EXCEPT !.pc = "edit", !.row = client[call[w].id]]]
          BY <1>c, <3>2 DEF EditReads
        <4> QED
          BY <3>1, <4>1 DEF Calls
      <3>3. CASE ~Mutable(call[w].id)
        BY <1>c, <3>1, <3>3, IdleIs DEF EditReads, Answer
      <3> QED
        BY <3>2, <3>3
    <2> QED
      BY <2>1, <2>2, <2>3, RefreshStill
  <1>d. ASSUME NEW w \in Writers, EditWrites(w) PROVE RefreshInv'
    BY <1>d, CommitRefreshes DEF EditWrites, bootVars
  <1>e. ASSUME NEW w \in Writers, SetDisabled(w) PROVE RefreshInv'
    <2>1. Commit(w) /\ Touch(call[w].id) /\ call[w].id \in Clients /\ call[w].pc = "asked"
      BY <1>e, SetDisabledIs DEF SetDisabled
    <2> QED
      BY <1>0, <2>1, CommitRefreshes, TouchIs
  <1>f. ASSUME NEW w \in Writers, Rotate(w) PROVE RefreshInv'
    <2>1. /\ Answer(w) /\ Touch(call[w].id) /\ call[w].id \in Clients /\ call[w].pc = "asked"
          /\ UNCHANGED <<origins, earlier, overtaken, stale>>
      BY <1>f, RotateIs DEF Rotate, originVars
    <2>2. \A c \in Clients : (client'[c] = None <=> client[c] = None) /\ (client[c] # None => client'[c].disabled = client[c].disabled)
      BY <1>f, RotateIs DEF Exists, ClientsAssumption
    <2>3. Enabled' = Enabled
      BY <2>2 DEF Enabled, Exists
    <2> QED
      BY <1>0, <2>1, <2>3, RefreshStill, AnswerIs, TouchIs
  <1>g. ASSUME NEW w \in Writers, Delete(w) PROVE RefreshInv'
    <2>1. Commit(w) /\ Touch(call[w].id) /\ call[w].id \in Clients /\ call[w].pc = "asked"
      BY <1>g, DeleteIs DEF Delete
    <2> QED
      BY <1>0, <2>1, CommitRefreshes, TouchIs
  <1>h. ASSUME NEW w \in Writers, RefreshReads(w) PROVE RefreshInv'
    <2>1. /\ call[w].pc = "refresh" /\ call' = [call EXCEPT ![w] = [Idle EXCEPT !.pc = "install", !.row = Enabled]]
          /\ earlier' = [earlier EXCEPT ![w] = Refreshing]
          /\ UNCHANGED <<client, boot, origins, overtaken, stale>>
      BY <1>h DEF RefreshReads, tableVars, bootVars
    <2>2. Enabled' = Enabled /\ Enabled \in SUBSET Clients
      BY <2>1 DEF Enabled, Exists
    <2>3. /\ call'[w].pc = "install" /\ call'[w].row = Enabled /\ earlier'[w] = Refreshing
          /\ \A x \in Writers : x # w => call'[x] = call[x] /\ earlier'[x] = earlier[x]
      BY <1>0, <2>1, <2>2, InstallIs DEF ClientsTyped
    <2>4. w \notin Refreshing /\ \A x \in Writers : call[x].pc = "install" => x \in Refreshing
      BY <1>z, <2>1 DEF Refreshing
    <2> QED
      BY <1>0, <2>1, <2>2, <2>3, <2>4 DEF RefreshInv, OthersToCome
  <1>i. ASSUME NEW w \in Writers, RefreshFails(w) PROVE RefreshInv'
    <2>1. /\ call[w].pc = "refresh" /\ call' = [call EXCEPT ![w] = Idle] /\ Unrefreshed /\ boot' = boot
      BY <1>i DEF RefreshFails, bootVars
    <2>2. /\ call'[w].pc = "idle"
          /\ \A x \in Writers : x # w => call'[x] = call[x]
      BY <1>0, <2>1, IdleIs DEF ClientsTyped
    <2> QED
      BY <1>0, <2>1, <2>2 DEF RefreshInv, Unrefreshed, Refreshing
  <1>j. ASSUME NEW w \in Writers, RefreshInstalls(w) PROVE RefreshInv'
    <2>1. /\ call[w].pc = "install" /\ call' = [call EXCEPT ![w] = Idle] /\ origins' = call[w].row
          /\ stale' = (w \in overtaken)
          /\ overtaken' = ((overtaken \cup earlier[w]) \cap Refreshing) \ {w}
          /\ UNCHANGED <<client, boot, earlier>>
      BY <1>j DEF RefreshInstalls, Installed, tableVars, bootVars
    <2>2. /\ call'[w].pc = "idle"
          /\ \A x \in Writers : x # w => call'[x] = call[x]
      BY <1>0, <2>1, IdleIs DEF ClientsTyped
    <2>3. Enabled' = Enabled
      BY <2>1 DEF Enabled, Exists
    <2>4. /\ \A x \in Writers : call[x].pc = "install" => x \in Refreshing
          /\ boot.pc = "serve" => Boot \in Refreshing
      BY DEF Refreshing
    <2>5. ASSUME NEW x \in Writers, x # w \/ x \notin overtaken, x \notin earlier[w], OthersToCome(x)
          PROVE  OthersToCome(x)'
      BY <2>1, <2>2, <2>5 DEF OthersToCome
    <2>6. ASSUME NEW x \in Writers, call'[x].pc = "install"
          PROVE  x \notin earlier'[x] /\ (x \notin overtaken' => call'[x].row = Enabled' \/ OthersToCome(x)')
      <3>1. x # w /\ call[x].pc = "install" /\ call'[x] = call[x] /\ x \notin earlier[x]
        BY <1>0, <2>2, <2>6 DEF RefreshInv
      <3>2. x \notin overtaken' => x \notin overtaken /\ x \notin earlier[w]
        BY <2>1, <2>4, <3>1
      <3>3. x \notin overtaken => call[x].row = Enabled \/ OthersToCome(x)
        BY <1>0, <3>1 DEF RefreshInv
      <3> QED
        BY <2>1, <2>3, <2>5, <3>1, <3>2, <3>3
    <2>7. boot'.pc = "serve" /\ Boot \notin overtaken' => boot'.rows = Enabled'
      BY <1>0, <1>z, <2>1, <2>3, <2>4 DEF RefreshInv
    <2>8. ASSUME ~stale'
          PROVE  origins' = Enabled' \/ \E x \in Writers : call'[x].pc \in {"refresh", "install"}
      <3>1. w \notin overtaken /\ w \notin earlier[w] /\ (call[w].row = Enabled \/ OthersToCome(w))
        BY <1>0, <2>1, <2>8 DEF RefreshInv
      <3>2. OthersToCome(w) => OthersToCome(w)'
        BY <2>5, <3>1
      <3> QED
        BY <2>1, <2>3, <3>1, <3>2 DEF OthersToCome
    <2> QED
      BY <2>6, <2>7, <2>8 DEF RefreshInv
  <1>k. ASSUME NEW u \in Admins, RemoveAdmin(u) PROVE RefreshInv'
    <2>1. Unrefreshed /\ call' = call /\ boot'.pc = boot.pc
      BY <1>k, RemovalIs
    <2> QED
      BY <1>0, <2>1 DEF RefreshInv, Unrefreshed, Refreshing
  <1>l. ASSUME NEW c \in Clients, Issue(c) PROVE RefreshInv'
    <2>1. UNCHANGED <<client, call, boot, origins, earlier, overtaken, stale>>
      BY <1>l DEF Issue, bootVars, originVars
    <2>2. Enabled' = Enabled
      BY <2>1 DEF Enabled, Exists
    <2> QED
      BY <2>1, <2>2, RefreshStill
  <1>m. ASSUME NEW f \in Files, NEW prune \in BOOLEAN, BootStart(f, prune) PROVE RefreshInv'
    <2>1. UNCHANGED <<client, call, origins, earlier, overtaken, stale>> /\ boot'.pc # "serve"
      BY <1>m DEF BootStart, Off, tableVars, originVars
    <2>2. Enabled' = Enabled
      BY <2>1 DEF Enabled, Exists
    <2> QED
      BY <1>z, <2>1, <2>2, RefreshStill
  <1>n. ASSUME BootReads PROVE RefreshInv'
    <2>1. UNCHANGED <<client, call, origins, earlier, overtaken, stale>>
      BY <1>n DEF BootReads, originVars
    <2>2. Enabled' = Enabled
      BY <2>1 DEF Enabled, Exists
    <2>3. boot'.pc # "serve"
      BY <1>0, <1>n DEF BootReads, ClientsTyped, StartUps
    <2> QED
      BY <1>z, <2>1, <2>2, <2>3, RefreshStill
  <1>o. ASSUME BootCommits PROVE RefreshInv'
    <2>1. Unrefreshed /\ call' = call /\ boot'.pc # "serve"
      BY <1>0, <1>o DEF BootCommits, ClientsTyped, StartUps
    <2> QED
      BY <1>0, <2>1 DEF RefreshInv, Unrefreshed, Refreshing
  <1>p. ASSUME BootRefreshes PROVE RefreshInv'
    <2>1. UNCHANGED <<client, call, origins, earlier, overtaken, stale>>
      BY <1>p DEF BootRefreshes, tableVars, originVars
    <2>2. Enabled' = Enabled
      BY <2>1 DEF Enabled, Exists
    <2>3. boot'.rows = Enabled
      BY <1>0, <1>p DEF BootRefreshes, ClientsTyped, StartUps
    <2>4. \A x \in Writers : OthersToCome(x)' <=> OthersToCome(x)
      BY <2>1 DEF OthersToCome
    <2> QED
      BY <1>0, <2>1, <2>2, <2>3, <2>4 DEF RefreshInv
  <1>q. ASSUME Serve PROVE RefreshInv'
    <2>1. /\ boot.pc = "serve" /\ origins' = boot.rows /\ stale' = (Boot \in overtaken)
          /\ call' = [w \in Writers |-> IF call[w].pc \in {"refresh", "install"} THEN Idle ELSE call[w]]
          /\ boot' = Off /\ client' = client
      BY <1>q DEF Serve, tableVars
    <2>2. Enabled' = Enabled
      BY <2>1 DEF Enabled, Exists
    <2>3. \A w \in Writers : call'[w].pc \notin {"refresh", "install"}
      BY <2>1, IdleIs
    <2> QED
      BY <1>0, <2>1, <2>2, <2>3, OffIs DEF RefreshInv
  <1>r. ASSUME BootFails PROVE RefreshInv'
    <2>1. UNCHANGED <<client, call, origins, earlier, stale>> /\ boot'.pc # "serve" /\ overtaken' = overtaken \ {Boot}
      BY <1>r, OffIs DEF BootFails
    <2>2. Enabled' = Enabled
      BY <2>1 DEF Enabled, Exists
    <2> QED
      BY <1>z, <2>1, <2>2, RefreshStill
  <1>s. CASE UNCHANGED clientVars
    <2>1. UNCHANGED <<client, call, boot, origins, earlier, overtaken, stale>>
      BY <1>s DEF clientVars, tableVars, bootVars, originVars
    <2>2. Enabled' = Enabled
      BY <2>1 DEF Enabled, Exists
    <2> QED
      BY <2>1, <2>2, RefreshStill
  <1> QED
    BY <1>a, <1>b, <1>c, <1>d, <1>e, <1>f, <1>g, <1>h, <1>i, <1>j, <1>k, <1>l, <1>m, <1>n, <1>o, <1>p, <1>q, <1>r, <1>s,
       ClientSteps

-----------------------------------------------------------------------------
LEMMA ClientsInvariant == ASSUME ClientsAssumption PROVE Spec => []ClientsInv
  <1>1. Init => ClientsInv
    BY ClientsInvInit
  <1>2. ClientsInv /\ [Next]_clientVars => ClientsInv'
    BY ClientsTypedStep, RowsStep, EditStep, MergeStep, FileStep, WishStep, RefreshStep DEF ClientsInv
  <1> QED
    BY <1>1, <1>2, PTL DEF Spec

\* The variables of the table of clients always have their types, rows are of
\* administrators who are there, and tokens of rows that are.
THEOREM ClientsTypeCorrect == ASSUME ClientsAssumption PROVE Spec => []TypeOK
  <1>1. ClientsInv => TypeOK
    BY ClientsInvIsTyped
  <1> QED
    BY <1>1, ClientsInvariant, PTL

\* For any clients, administrators, requests in flight and start-ups: once a file
\* has been reconciled its clients are as it has them and its former ones are
\* disabled, but for the rows written without the lock (oidc/reconcile.ts).
THEOREM FileClientsFollow == ASSUME ClientsAssumption PROVE Spec => []FileRowsFollowTheFile
  <1>1. ClientsInv => FileRowsFollowTheFile
    BY DEF ClientsInv
  <1> QED
    BY <1>1, ClientsInvariant, PTL

\* However many edits, rotations and disablings are in flight: the last answered
\* call's value is the row's, unless it committed while an edit ran
\* (admin/endpoints.ts updateClient).
THEOREM LastCallStands == ASSUME ClientsAssumption PROVE Spec => []LastCallHolds
  <1>1. ClientsInv => LastCallHolds
    BY DEF ClientsInv, WishInv
  <1> QED
    BY <1>1, ClientsInvariant, PTL

\* However many refreshes overlap: when none is left to do, the cache has exactly
\* the enabled clients, or has been marked as old (oidc/client-origins.ts).
THEOREM OriginsFollow == ASSUME ClientsAssumption PROVE Spec => []OriginsAreCurrent
  <1>1. ClientsInv => OriginsAreCurrent
    BY DEF ClientsInv, RefreshInv, OriginsAreCurrent, Quiet
  <1> QED
    BY <1>1, ClientsInvariant, PTL

\* No start-up writes a row an administrator registered, or takes its tokens,
\* unless its file names the client (oidc/reconcile.ts).
THEOREM RegisteredRowsSurvive == ASSUME ClientsAssumption PROVE Spec => RegisteredRowsSurviveAStart
  <1>1. ClientsInv /\ [Next]_clientVars =>
            [\A c \in Clients : BootCommits /\ Mutable(c) /\ c \notin DOMAIN boot.file =>
                client'[c] = client[c] /\ (c \in held => c \in held')]_clientVars
    <2> SUFFICES ASSUME ClientsInv, NEW c \in Clients, BootCommits, Mutable(c), c \notin DOMAIN boot.file
                 PROVE  client'[c] = client[c] /\ (c \in held => c \in held')
      OBVIOUS
    <2>1. /\ boot.pc = "merge" /\ client'[c] = Merged(c) /\ held' = held \ Orphans
      BY DEF BootCommits
    <2>2. c \notin Orphans
      BY <2>1 DEF ClientsInv, MergeInv, Mutable, Orphans
    <2>3. Merged(c) = client[c]
      BY <2>2 DEF Merged
    <2> QED
      BY <2>1, <2>2, <2>3
  <1> QED
    BY <1>1, ClientsInvariant, PTL DEF Spec, RegisteredRowsSurviveAStart
-----------------------------------------------------------------------------
(* The table of clients implements OwnedTable.                             *)

\* What the rows are seen as in OwnedTable.
OwnerOfClient == [c \in Clients |-> ClientOwner(c)]
ClientsAbstract == <<OwnerOfClient, DOMAIN applied, outside>>

\* Rows that go, of the file only where they are counted, or none at all.
LEMMA RowsGo ==
  ASSUME NEW gone \in SUBSET Clients, applied' = applied, outside \subseteq outside',
         \A c \in gone : client'[c] = None /\ (ClientOwner(c) = File => c \in outside'),
         \A c \in Clients \ gone : ClientOwner(c)' = ClientOwner(c)
  PROVE  ClientOwners!Next
  <1>1. \A c \in gone : ClientOwner(c)' = None
    BY DEF ClientOwner, Exists
  <1>2. OwnerOfClient' = [c \in Clients |-> IF c \in gone THEN None ELSE OwnerOfClient[c]]
    BY <1>1 DEF OwnerOfClient
  <1>3. gone \cap ClientOwners!Owned(File) \subseteq outside'
    BY DEF ClientOwners!Owned
  <1>4. ClientOwners!Remove(gone)
    BY <1>2, <1>3 DEF ClientOwners!Remove, OwnerOfClient
  <1> QED
    BY <1>4 DEF ClientOwners!Next

\* A reconciliation claims what its file names and drops rows that are the
\* file's: what it read has not changed hands since.
LEMMA MergeReconciles ==
  ASSUME ClientsAssumption, ClientsInv, FileRowsFollowTheFile', BootCommits
  PROVE  ClientOwners!Next
  <1> DEFINE f == DOMAIN boot.file
             kept == {c \in f : ClientOwner(c)' = File}
             dropped == {c \in Clients \ f : ClientOwner(c)' # ClientOwner(c)}
  <1>1. /\ boot.pc = "merge" /\ applied' = boot.file /\ outside' = outside \ boot.clean
        /\ \A c \in Clients : client'[c] = Merged(c)
    BY DEF BootCommits
  <1>2. boot.file \in Files \cup {<<>>} /\ f \subseteq Clients /\ None \notin RowSet
    BY FileRowIs DEF ClientsInv, ClientsTyped, StartUps, ClientsAssumption
  <1>3. ASSUME NEW c \in f
        PROVE  /\ ClientOwner(c)' = File \/ ClientOwner(c)' = ClientOwner(c)
               /\ c \notin outside' => ClientOwner(c)' = File
    <2>1. c \in Clients /\ FileRow(boot.file, c) \in RowSet /\ FileRow(boot.file, c).owner = File
      BY <1>2, FileRowIs
    <2>2. client'[c] = FileRow(boot.file, c) \/ client'[c] = client[c]
      BY <1>1, <2>1 DEF Merged
    <2>3. c \notin outside' => client'[c] = FileRow(boot.file, c)
      BY <1>1, <2>1, MergedIs
    <2> QED
      BY <1>2, <2>1, <2>2, <2>3 DEF ClientOwner, Exists
  <1>4. ASSUME NEW c \in Clients \ f
        PROVE  /\ ClientOwner(c)' = ClientOwner(c) \/ ClientOwner(c)' = None
               /\ ClientOwner(c)' # ClientOwner(c) => ClientOwner(c) = File
    <2>1. CASE c \in Orphans /\ Exists(c)
      <3>1. client[c] \in RowSet /\ client[c].owner = File
        BY <1>1, <2>1 DEF ClientsInv, ClientsTyped, MergeInv, MaybeClientRows, Orphans, Exists
      <3>2. client'[c] = None \/ (client'[c] # None /\ client'[c].owner = File)
        BY <1>1, <2>1, MergedIs
      <3> QED
        BY <2>1, <3>1, <3>2 DEF ClientOwner, Exists
    <2>2. CASE ~(c \in Orphans /\ Exists(c))
      BY <1>1, <2>2 DEF Merged, ClientOwner, Exists
    <2> QED
      BY <2>1, <2>2
  <1>5. OwnerOfClient' = [c \in Clients |-> IF c \in kept THEN File
                                          ELSE IF c \in dropped THEN None ELSE OwnerOfClient[c]]
    <2>1. \A c \in Clients : ClientOwner(c)' = IF c \in kept THEN File
                                              ELSE IF c \in dropped THEN None ELSE OwnerOfClient[c]
      BY <1>2, <1>3, <1>4 DEF OwnerOfClient
    <2> QED
      BY <2>1 DEF OwnerOfClient
  <1>6. dropped \in SUBSET (ClientOwners!Owned(File) \ f) /\ kept \in SUBSET f /\ f \in SUBSET Clients
    BY <1>2, <1>4 DEF OwnerOfClient, ClientOwners!Owned
  <1>7. ClientOwners!Reconcile(f, kept, dropped)
    BY <1>1, <1>3, <1>5 DEF ClientOwners!Reconcile, OwnerOfClient
  <1> QED
    BY <1>6, <1>7 DEF ClientOwners!Next

\* Every step is one of the abstract table or changes nothing it sees.
LEMMA ClientStepIsAbstract ==
  ASSUME ClientsAssumption, ClientsInv, [Next]_clientVars
  PROVE  ClientOwners!Next \/ UNCHANGED ClientsAbstract
  <1>0. ClientsTyped /\ EditInv /\ None \notin RowSet \cup {File}
    BY DEF ClientsInv, ClientsAssumption
  <1>1. ASSUME NEW w \in Writers, NEW c \in Subjects, NEW u \in Admins, NEW public \in BOOLEAN,
               Create(w, c, u, public)
        PROVE  ClientOwners!Next
    <2>1. /\ c \in Clients /\ ~Exists(c) /\ client'[c] \in RowSet /\ client'[c].owner = u
          /\ \A d \in Clients : d # c => client'[d] = client[d]
          /\ applied' = applied /\ outside' = outside
      BY <1>1, CreateIs
    <2>2. /\ ClientOwner(c) = None /\ ClientOwner(c)' = u
          /\ \A d \in Clients : d # c => ClientOwner(d)' = ClientOwner(d)
      BY <1>0, <2>1 DEF ClientOwner, Exists
    <2>3. OwnerOfClient[c] = None /\ OwnerOfClient' = [OwnerOfClient EXCEPT ![c] = u]
      BY <2>1, <2>2 DEF OwnerOfClient
    <2>4. ClientOwners!Register(c, u)
      BY <2>1, <2>3 DEF ClientOwners!Register, OwnerOfClient
    <2> QED
      BY <2>1, <2>4 DEF ClientOwners!Next
  <1>2. ASSUME NEW w \in Writers, EditWrites(w) PROVE UNCHANGED ClientsAbstract
    <2>1. applied' = applied /\ outside' = outside
      BY <1>2 DEF EditWrites, bootVars
    <2>2. \A d \in Clients : ClientOwner(d)' = ClientOwner(d)
      BY <1>0, <1>2, EditWritesIs DEF EditInv, ClientOwner, Exists
    <2> QED
      BY <2>1, <2>2 DEF ClientsAbstract, OwnerOfClient
  <1>3. ASSUME NEW w \in Writers, SetDisabled(w) \/ Rotate(w) PROVE ClientOwners!Next
    <2>1. Touch(call[w].id) /\ applied' = applied
      BY <1>3 DEF SetDisabled, Rotate
    <2>2. call[w].id \in Clients /\ outside \subseteq outside'
      BY <1>0, <1>3, <2>1, SetDisabledIs, RotateIs, TouchIs
    <2>3. \A d \in Clients : ClientOwner(d)' = ClientOwner(d)
      <3>1. CASE SetDisabled(w)
        BY <1>0, <3>1, SetDisabledIs DEF ClientOwner, Exists
      <3>2. CASE Rotate(w)
        BY <1>0, <3>2, RotateIs DEF ClientOwner, Exists
      <3> QED
        BY <1>3, <3>1, <3>2
    <2>4. PICK gone \in SUBSET Clients : gone = {}
      OBVIOUS
    <2>5. /\ \A d \in gone : client'[d] = None /\ (ClientOwner(d) = File => d \in outside')
          /\ \A d \in Clients \ gone : ClientOwner(d)' = ClientOwner(d)
      BY <2>3, <2>4
    <2> QED
      BY <2>1, <2>2, <2>5, RowsGo
  <1>4. ASSUME NEW w \in Writers, Delete(w) PROVE ClientOwners!Next
    <2> DEFINE c == call[w].id
    <2>1. /\ c \in Clients /\ client'[c] = None /\ applied' = applied /\ Touch(c)
          /\ \A d \in Clients : d # c => client'[d] = client[d]
      BY <1>4, DeleteIs
    <2>2. /\ outside \subseteq outside'
          /\ Exists(c) /\ client[c].owner = File => c \in outside'
      BY <1>0, <2>1, TouchIs
    <2>3. /\ ClientOwner(c) = File => c \in outside'
          /\ \A d \in Clients \ {c} : ClientOwner(d)' = ClientOwner(d)
      BY <1>0, <2>1, <2>2 DEF ClientOwner, Exists
    <2>4. PICK gone \in SUBSET Clients : gone = {c}
      BY <2>1
    <2>5. /\ \A d \in gone : client'[d] = None /\ (ClientOwner(d) = File => d \in outside')
          /\ \A d \in Clients \ gone : ClientOwner(d)' = ClientOwner(d)
      BY <2>1, <2>3, <2>4
    <2> QED
      BY <2>1, <2>2, <2>5, RowsGo
  <1>5. ASSUME NEW u \in Admins, RemoveAdmin(u) PROVE ClientOwners!Next
    <2> DEFINE theirs == {c \in Clients : Exists(c) /\ client[c].owner = u}
    <2>1. /\ \A c \in Clients \ theirs : client'[c] = client[c]
          /\ \A c \in theirs : client'[c] = None
          /\ outside' = outside \cup theirs /\ applied' = applied
      BY <1>5, RemovalIs DEF ClientsInv
    <2>2. \A c \in Clients \ theirs : ClientOwner(c)' = ClientOwner(c)
      BY <2>1 DEF ClientOwner, Exists
    <2> QED
      BY <2>1, <2>2, RowsGo
  <1>6. ASSUME NEW c \in Clients, Issue(c) PROVE UNCHANGED ClientsAbstract
    BY <1>6 DEF Issue, bootVars, ClientsAbstract, OwnerOfClient, ClientOwner, Exists
  <1>7. ASSUME BootCommits PROVE ClientOwners!Next
    BY <1>7, FileStep, MergeReconciles
  <1>8. CASE UNCHANGED <<client, held, admins, outside, wish, contested, applied>>
    BY <1>8 DEF ClientsAbstract, OwnerOfClient, ClientOwner, Exists
  <1> QED
    BY <1>1, <1>2, <1>3, <1>4, <1>5, <1>6, <1>7, <1>8, WritingSteps

\* The table of clients implements OwnedTable: whatever calls, removed
\* administrators and start-ups overlap, a client changes hands only as it
\* allows (admin/endpoints.ts and oidc/reconcile.ts).
THEOREM ClientsImplement == ASSUME ClientsAssumption PROVE Spec => ClientOwnersChangeAsPromised
  <1>1. Init => ClientOwners!Init
    <2>1. ASSUME Init PROVE DOMAIN applied = {}
      BY <2>1 DEF Init
    <2> QED
      BY <2>1 DEF Init, ClientOwners!Init, ClientOwner, Exists
  <1>2. ClientsInv /\ [Next]_clientVars => [ClientOwners!Next]_ClientsAbstract
    BY ClientStepIsAbstract
  <1> QED
    BY <1>1, <1>2, ClientsInvariant, PTL
       DEF Spec, ClientOwnersChangeAsPromised, ClientOwners!Spec, ClientsAbstract, OwnerOfClient

-----------------------------------------------------------------------------
(* The file a server was started with.                                      *)

\* A start-up serves no file but the one it has reconciled, unless it had none to
\* reconcile; and until the next one begins that file is the last one applied.
DeployInv ==
    /\ boot.pc # "off" => deployed = None
    /\ boot.pc \in {"origins", "serve"} /\ boot.file # <<>> => applied = boot.file
    /\ deployed \notin {None, <<>>} => applied = deployed

LEMMA DeployInit == Init => DeployInv
  BY OffIs DEF Init, DeployInv

LEMMA DeployStep ==
  ASSUME ClientsAssumption, ClientsInv, DeployInv, [Next]_clientVars
  PROVE  DeployInv'
  <1>0. ClientsTyped /\ boot \in StartUps
    BY DEF ClientsInv, ClientsTyped
  \* A step that leaves the start-up where it is.
  <1>a. ASSUME boot'.pc = boot.pc, boot'.file = boot.file, UNCHANGED <<applied, deployed>>
        PROVE  DeployInv'
    BY <1>a DEF DeployInv
  <1>1. ASSUME NEW w \in Writers, NEW c \in Subjects, NEW u \in Admins, NEW public \in BOOLEAN, Create(w, c, u, public)
        PROVE  DeployInv'
    BY <1>1, <1>a DEF Create, bootVars
  <1>2. ASSUME NEW w \in Writers, NEW c \in Subjects, NEW kind \in {"edit", "disable", "rotate", "delete"},
               NEW arg \in BOOLEAN, Ask(w, kind, c, arg)
        PROVE  DeployInv'
    BY <1>2, <1>a DEF Ask, bootVars
  <1>3. ASSUME NEW w \in Writers,
               \/ EditReads(w) \/ EditWrites(w)
               \/ RefreshReads(w) \/ RefreshFails(w) \/ RefreshInstalls(w)
        PROVE  DeployInv'
    BY <1>3, <1>a DEF EditReads, EditWrites, RefreshReads, RefreshFails, RefreshInstalls, bootVars
  <1>4. ASSUME NEW w \in Writers, SetDisabled(w) \/ Rotate(w) \/ Delete(w) PROVE DeployInv'
    <2>1. /\ Touch(call[w].id) /\ call[w].id \in Clients
          /\ UNCHANGED <<applied, deployed>>
      BY <1>0, <1>4 DEF SetDisabled, Rotate, Delete, ClientsTyped
    <2> QED
      BY <1>0, <1>a, <2>1, TouchIs
  <1>5. ASSUME NEW u \in Admins, RemoveAdmin(u) PROVE DeployInv'
    <2>1. \E S : boot' = [boot EXCEPT !.clean = @ \ S]
      BY <1>5 DEF RemoveAdmin
    <2>2. boot'.pc = boot.pc /\ boot'.file = boot.file
      BY <1>0, <2>1 DEF StartUps
    <2> QED
      BY <1>5, <1>a, <2>2 DEF RemoveAdmin
  <1>6. ASSUME NEW c \in Clients, Issue(c) PROVE DeployInv'
    BY <1>6, <1>a DEF Issue, bootVars
  <1>7. ASSUME NEW f \in Files, NEW prune \in BOOLEAN, BootStart(f, prune) PROVE DeployInv'
    <2>1. boot'.pc = (IF f = <<>> THEN "origins" ELSE "lock") /\ boot'.file = f
      BY <1>7 DEF BootStart, Off
    <2> QED
      BY <1>7, <2>1 DEF BootStart, DeployInv
  <1>8. ASSUME BootReads PROVE DeployInv'
    <2>1. boot.pc = "lock" /\ boot'.pc = "merge" /\ UNCHANGED <<applied, deployed>>
      BY <1>0, <1>8 DEF BootReads, StartUps
    <2> QED
      BY <2>1 DEF DeployInv
  <1>9. ASSUME BootCommits PROVE DeployInv'
    <2>1. /\ boot.pc = "merge" /\ boot'.pc = "origins" /\ boot'.file = boot.file
          /\ applied' = boot.file /\ deployed' = deployed
      BY <1>0, <1>9 DEF BootCommits, StartUps
    <2> QED
      BY <2>1 DEF DeployInv
  <1>10. ASSUME BootRefreshes PROVE DeployInv'
    <2>1. /\ boot.pc = "origins" /\ boot'.pc = "serve" /\ boot'.file = boot.file
          /\ UNCHANGED <<applied, deployed>>
      BY <1>0, <1>10 DEF BootRefreshes, StartUps
    <2> QED
      BY <2>1 DEF DeployInv
  <1>11. ASSUME Serve PROVE DeployInv'
    <2>1. boot.pc = "serve" /\ boot'.pc = "off" /\ deployed' = boot.file /\ applied' = applied
      BY <1>11, OffIs DEF Serve
    <2> QED
      BY <2>1 DEF DeployInv
  <1>12. ASSUME BootFails PROVE DeployInv'
    <2>1. boot'.pc = "off" /\ UNCHANGED <<applied, deployed>>
      BY <1>12, OffIs DEF BootFails
    <2> QED
      BY <2>1 DEF DeployInv
  <1>13. CASE UNCHANGED clientVars
    BY <1>13, <1>a DEF clientVars, bootVars
  <1> QED
    BY <1>1, <1>2, <1>3, <1>4, <1>5, <1>6, <1>7, <1>8, <1>9, <1>10, <1>11, <1>12, <1>13, ClientSteps

\* While a server serves a file that has clients, the clients that the file no
\* longer names are disabled, but for the rows written without the lock: what is
\* promised of removed clients fails for an emptied file alone (startup.ts).
THEOREM ServedFileIsFollowed ==
  ASSUME ClientsAssumption
  PROVE  Spec => [](deployed # <<>> => RemovedClientsAreDisabled)
  <1>1. Init => ClientsInv /\ DeployInv
    BY ClientsInvInit, DeployInit
  <1>2. (ClientsInv /\ DeployInv) /\ [Next]_clientVars => (ClientsInv /\ DeployInv)'
    BY DeployStep, ClientsTypedStep, RowsStep, EditStep, MergeStep, FileStep, WishStep, RefreshStep DEF ClientsInv
  <1>3. ClientsInv /\ DeployInv => (deployed # <<>> => RemovedClientsAreDisabled)
    <2> SUFFICES ASSUME ClientsInv, DeployInv, deployed # <<>>, deployed # None,
                        NEW c \in Clients \ outside,
                        Exists(c), client[c].owner = File, c \notin DOMAIN deployed
                 PROVE  client[c].disabled
      BY DEF RemovedClientsAreDisabled
    <2>1. applied = deployed
      BY DEF DeployInv
    <2> QED
      BY <2>1 DEF ClientsInv, FileRowsFollowTheFile
  <1> QED
    BY <1>1, <1>2, <1>3, PTL DEF Spec
=============================================================================
