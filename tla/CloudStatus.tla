---------------------------- MODULE CloudStatus ----------------------------
(***************************************************************************)
(* The cloud ranges of a guarded application: the table that the refresh   *)
(* job swaps provider by provider (src/src/lib.rs), that the cloud check   *)
(* consults and that GuardStatus reports row by row (src/src/status.rs).   *)
(* All of them hold clones of one table, and no reader locks more than a   *)
(* row of it.                                                              *)
(***************************************************************************)
EXTENDS Naturals, Sequences

CONSTANTS
  Clients,        \* requests that may read the table
  ProviderOrder,  \* VALID_CLOUD_PROVIDERS, a sequence
  Geo,            \* what GuardStatus was given: "none", "flag", "manager", "both"
  Failures,       \* fetches that fail, as provider and load
  MaxRefreshes    \* bound: refreshes accepted

Providers == {ProviderOrder[i] : i \in DOMAIN ProviderOrder}

ASSUME CloudAssumption ==
  /\ ProviderOrder \in Seq(Providers) /\ ProviderOrder # <<>>
  /\ \A i, j \in DOMAIN ProviderOrder : ProviderOrder[i] = ProviderOrder[j] => i = j
  /\ Geo \in {"none", "flag", "manager", "both"} /\ MaxRefreshes \in Nat

VARIABLES
  table,      \* the CloudIpTable: per provider, its row and the loads it saw
  inFlight,   \* providers the running refresh has yet to swap
  accepted,   \* refreshes schedule_refresh said true to
  since,      \* per client, the table when it came, kept for the properties
  rows,       \* per client, provider rows read so far
  geo         \* per client, the geo component of its document

tableVars == <<table, inFlight, accepted>>
readerVars == <<since, rows, geo>>
cloudVars == <<tableVars, readerVars>>

\* A row with its load, a number that grows with every swap.
Rows == [ready : BOOLEAN, load : 0 .. MaxRefreshes]
NoRow == [ready |-> FALSE, load |-> 0]

CloudInit ==
  /\ table = [p \in Providers |-> NoRow]
  /\ inFlight = {}
  /\ accepted = 0
  /\ since = [r \in Clients |-> [p \in Providers |-> NoRow]]
  /\ rows = [r \in Clients |-> <<>>]
  /\ geo = [r \in Clients |-> "unread"]
-----------------------------------------------------------------------------
(* The refresh.                                                            *)

\* schedule_refresh, which only delegates: the engine's scheduler answers
\* true, and false while a refresh is in flight, when nothing changes.
Schedule ==
  /\ accepted < MaxRefreshes /\ inFlight = {}
  /\ accepted' = accepted + 1 /\ inFlight' = Providers
  /\ UNCHANGED <<table, readerVars>>

\* One provider's fetch is over: its ranges are swapped in, or dropped when
\* it failed.
Swap(p) ==
  /\ p \in inFlight
  /\ table' = [table EXCEPT ![p] =
                 [ready |-> <<p, @.load + 1>> \notin Failures, load |-> @.load + 1]]
  /\ inFlight' = inFlight \ {p}
  /\ UNCHANGED <<accepted, readerVars>>

Background == Schedule \/ \E p \in Providers : Swap(p)
-----------------------------------------------------------------------------
(* The readers.                                                            *)

\* A client of the table comes.
Comes(r) ==
  /\ since' = [since EXCEPT ![r] = table]
  /\ UNCHANGED <<tableVars, rows, geo>>

RowsLeft(r) == Len(rows[r]) < Len(ProviderOrder)

\* Mutant: the document is rendered once, when the service is built.
ReadRowCached(r) ==
  /\ RowsLeft(r)
  /\ rows' = [rows EXCEPT ![r] = Append(@, NoRow)]
  /\ UNCHANGED <<tableVars, since, geo>>

\* Mutant: the rows are read from the last provider to the first.
ReadRowBackwards(r) ==
  /\ RowsLeft(r)
  /\ rows' = [rows EXCEPT ![r] = <<table[ProviderOrder[Len(ProviderOrder) - Len(@)]]>> \o @]
  /\ UNCHANGED <<tableVars, since, geo>>

\* cloud_provider_status: one row after another, each from the live table.
ReadRow(r) ==
  /\ RowsLeft(r)
  /\ rows' = [rows EXCEPT ![r] = Append(@, table[ProviderOrder[Len(@) + 1]])]
  /\ UNCHANGED <<tableVars, since, geo>>

\* geo_ip_status: the manager's own readout hides the flag.
GeoStatus ==
  CASE Geo \in {"manager", "both"} -> "health"
    [] Geo = "flag" -> "configured"
    [] Geo = "none" -> "null"

\* The rest of payload: the component and the document's end.
ReadGeo(r) ==
  /\ ~RowsLeft(r) /\ geo[r] = "unread"
  /\ geo' = [geo EXCEPT ![r] = GeoStatus]
  /\ UNCHANGED <<tableVars, since, rows>>

Rendered(r) == geo[r] # "unread"

\* The cloud check of a guarded request: one provider, from the same table.
Consults(r) ==
  /\ rows[r] = <<>>
  /\ rows' = [rows EXCEPT ![r] = <<table[ProviderOrder[1]]>>]
  /\ UNCHANGED <<tableVars, since, geo>>
-----------------------------------------------------------------------------
(* A document is not a snapshot of the table, but each row a request reads,*)
(* in the status route or in the cloud check, is one the table had while   *)
(* the request was there: what one client was told holds for the next.     *)
RowsAreLive ==
  \A r \in Clients : \A i \in DOMAIN rows[r] :
    LET p == ProviderOrder[i] IN
    /\ since[r][p].load <= rows[r][i].load /\ rows[r][i].load <= table[p].load
    /\ rows[r][i].load = since[r][p].load => rows[r][i] = since[r][p]
    /\ rows[r][i].load = table[p].load => rows[r][i] = table[p]

(* A document goes back by one refresh at most: its rows are in the order  *)
(* they were read in, so while the engine runs no two refreshes at once a  *)
(* later row is no more than one load behind an earlier one.               *)
RowsInOrder ==
  \A r \in Clients : \A i, j \in DOMAIN rows[r] :
    i < j => rows[r][i].load <= rows[r][j].load + 1
=============================================================================
