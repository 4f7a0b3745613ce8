------------------------------ MODULE SearchIndex ------------------------------
(***************************************************************************)
(* The search catalogue: two versions of the index behind one alias, the   *)
(* rebuild that fills a version and promotes it, and single documents      *)
(* written as moderation decides.  PostgreSQL is authoritative; which      *)
(* listings it publishes is the parameter `published` of the actions.      *)
(*                                                                         *)
(* A document is a read of the database followed, some time later, by a    *)
(* write through the alias: whatever happens in between is not in it.      *)
(***************************************************************************)
EXTENDS FiniteSets

CONSTANTS Listing  \* listings, each with one unit

VARIABLES
    index,   \* the documents of each index version
    alias,   \* UNIT_ALIAS: the version searches and single writes go to
    sweep,   \* reindexAll and the documents it loaded
    steady,  \* history: published without interruption since that load
    query    \* a search between its two stages, and its candidates

searchVars == <<index, alias, sweep, steady, query>>

Version == {"previous", "current"}

Idle == [step |-> "idle", docs |-> {}]

SearchTypeOK ==
    /\ index \in [Version -> SUBSET Listing]
    /\ alias \in Version \cup {"unbound"}
    /\ sweep \in [step : {"idle", "loaded", "filled"}, docs : SUBSET Listing]
    /\ steady \subseteq Listing
    /\ query \in [step : {"idle", "ranked"}, docs : SUBSET Listing]

(* A fresh cluster, or one that serves the version before this build's. *)
SearchInit(published) ==
    /\ \/ alias = "unbound" /\ index = [v \in Version |-> {}]
       \/ alias = "previous" /\ index = [v \in Version |-> IF v = alias THEN published ELSE {}]
    /\ sweep = Idle
    /\ steady = published
    /\ query = Idle

-----------------------------------------------------------------------------
(* Mutant: booting migrates the alias to the version of this build. *)
EnsureIndexMigrating == alias' = "current"

(* Mutant: the first boot binds the alias to a version nobody creates. *)
EnsureIndexMisnamed == alias' = IF alias = "unbound" THEN "next" ELSE alias

(* ensureIndex: the version exists from here on, and an alias that is      *)
(* bound stays where it is: the new version is still empty.                *)
EnsureIndex == alias' = IF alias = "unbound" THEN "current" ELSE alias

Boot ==
    /\ EnsureIndex
    /\ UNCHANGED <<index, sweep, steady, query>>

(* reindexAll: ensure, load every published listing, one bulk request,     *)
(* promote.  Bound: one rebuild at a time.                                 *)
SweepLoad(published) ==
    /\ sweep.step = "idle"
    /\ EnsureIndex
    /\ sweep' = [step |-> "loaded", docs |-> published]
    /\ steady' = published
    /\ UNCHANGED <<index, query>>

SweepFill ==
    /\ sweep.step = "loaded"
    /\ index' = [index EXCEPT !["current"] = @ \cup sweep.docs]
    /\ sweep' = [sweep EXCEPT !.step = "filled"]
    /\ UNCHANGED <<alias, steady, query>>

(* The bulk request reports errors, or the process dies: some documents    *)
(* are in, the alias stays.                                                *)
SweepFillFails ==
    /\ sweep.step = "loaded"
    /\ \E some \in SUBSET sweep.docs :
          index' = [index EXCEPT !["current"] = @ \cup some]
    /\ sweep' = Idle
    /\ UNCHANGED <<alias, steady, query>>

SweepPromote ==
    /\ sweep.step = "filled"
    /\ alias' = "current"
    /\ sweep' = Idle
    /\ UNCHANGED <<index, steady, query>>

SweepNext(published) ==
    SweepLoad(published) \/ SweepFill \/ SweepFillFails \/ SweepPromote

-----------------------------------------------------------------------------
(* indexUnit: the document when there is one, removeUnit when there is     *)
(* none.  Requests are served once the boot has bound the alias; a boot    *)
(* that could not reach OpenSearch is left out.                            *)
WriteDocument(l, present) ==
    /\ alias # "unbound"
    /\ index' = [index EXCEPT ![alias] = IF present THEN @ \cup {l} ELSE @ \ {l}]
    /\ UNCHANGED <<alias, sweep, steady, query>>

(* SearchService.search, first stage.  A failing query answers nothing. *)
Rank ==
    /\ query.step = "idle" /\ alias # "unbound"
    /\ \E hits \in SUBSET index[alias] : query' = [step |-> "ranked", docs |-> hits]
    /\ UNCHANGED <<index, alias, sweep, steady>>

(* Second stage, filterAvailable: bookings and host blocks are looked up   *)
(* in PostgreSQL, and nothing else is.                                     *)
Offered(taken) == query.docs \ taken

AnswerSearch ==
    /\ query.step = "ranked"
    /\ query' = Idle
    /\ UNCHANGED <<index, alias, sweep, steady>>

(* A listing whose publication changes is no longer steady. *)
Unsteady(l) ==
    /\ steady' = steady \ {l}
    /\ UNCHANGED <<index, alias, sweep, query>>
==============================================================================
