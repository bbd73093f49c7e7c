---------------------------- MODULE IngestAlias ----------------------------
(***************************************************************************)
(* The collections and the alias "kb" of Qdrant under ingest/ingest.py:    *)
(* runs that rebuild the corpus in a fresh collection, check it, repoint   *)
(* the alias and drop older collections, and runs that roll the alias      *)
(* back.  Every call of Qdrant is a step.                                  *)
(*                                                                         *)
(* Collections are numbered in the order of their names, which hold the    *)
(* time of their creation.  A collection that is deleted takes an alias    *)
(* that points to it along.                                                *)
(*                                                                         *)
(* Names that other components have too begin with Ingest, because         *)
(* CoordinationProofs extends several.                                     *)
(***************************************************************************)
EXTENDS Integers, FiniteSets, FiniteSetsExt

CONSTANTS
    Runs,            \* processes that may run at the same time
    MaxCollections,  \* bound on the collections ever created
    MaxKills,        \* bound on processes killed
    MaxFailures,     \* bound on calls that raise an exception
    MaxStranded,     \* those of them that leave collections behind
    MaxRollbacks     \* bound on rollbacks

ASSUME IngestAssumption ==
    /\ MaxCollections \in Nat /\ MaxKills \in Nat
    /\ MaxFailures \in Nat /\ MaxStranded \in Nat /\ MaxRollbacks \in Nat

VARIABLES
    created,   \* collections created so far
    content,   \* the collections that exist, and what they hold
    alias,     \* the target of the alias, 0 without one
    stage,     \* where each run is
    name,      \* the collection a run creates, or rolls back to
    previous,  \* the target of the alias that a run has read
    todo,      \* collections that a run has listed and not visited yet
    former,    \* history: the target before the last swap of an ingest
    kills, failures, stranded, rollbacks

runVars   == <<stage, name, previous, todo>>
countVars == <<kills, failures, stranded, rollbacks>>
ingestVars == <<created, content, alias, runVars, former, countVars>>

Collections == 1..MaxCollections
Existing == DOMAIN content

IngestTypeOK ==
    /\ created \in 0..MaxCollections
    /\ Existing \subseteq 1..created
    /\ \A c \in Existing : content[c] \in {"empty", "partial", "full"}
    /\ alias \in Existing \cup {0}
    /\ stage \in [Runs -> {"idle", "create", "index", "upsert", "count",
                        "discard", "swap", "list", "drop", "candidates",
                        "rollback"}]
    /\ name \in [Runs -> 0..created] /\ previous \in [Runs -> 0..created]
    /\ \A r \in Runs : todo[r] \subseteq 1..created
    /\ former \in 0..created
    /\ kills \in 0..MaxKills /\ failures \in 0..MaxFailures
    /\ stranded \in 0..MaxStranded /\ rollbacks \in 0..MaxRollbacks

IngestInit ==
    /\ created = 0 /\ content = [c \in {} |-> "empty"]
    /\ alias = 0 /\ former = 0
    /\ stage = [r \in Runs |-> "idle"]
    /\ name = [r \in Runs |-> 0] /\ previous = [r \in Runs |-> 0]
    /\ todo = [r \in Runs |-> {}]
    /\ kills = 0 /\ failures = 0 /\ stranded = 0 /\ rollbacks = 0

Proceed(r, label) == stage' = [stage EXCEPT ![r] = label]

Without(c) == [d \in Existing \ {c} |-> content[d]]

DeleteCollection(c) ==
    /\ content' = Without(c)
    /\ alias' = IF alias = c THEN 0 ELSE alias

(***************************************************************************)
(* ingest()                                                                *)
(***************************************************************************)

\* The corpus is parsed, compared with the target of the alias, and embedded;
\* a run that refuses it ends before it has created anything.
ReadTarget(r) ==
    /\ stage[r] = "idle"
    /\ previous' = [previous EXCEPT ![r] = alias]
    /\ Proceed(r, "create")
    /\ UNCHANGED <<created, content, alias, name, todo, former, countVars>>

CreateCollection(r) ==
    /\ stage[r] = "create" /\ created < MaxCollections
    /\ created' = created + 1
    /\ content' = [c \in Existing \cup {created'} |->
                    IF c = created' THEN "empty" ELSE content[c]]
    /\ name' = [name EXCEPT ![r] = created']
    /\ Proceed(r, "index")
    /\ UNCHANGED <<alias, previous, todo, former, countVars>>

\* The second call of create_collection().
CreatePayloadIndex(r) ==
    /\ stage[r] = "index"
    /\ Proceed(r, IF name[r] \in Existing THEN "upsert" ELSE "idle")
    /\ UNCHANGED <<created, content, alias, name, previous, todo, former,
                   countVars>>

\* The first batch, or the last one, after which points may be missing.
Upsert(r) ==
    /\ stage[r] = "upsert"
    /\ IF name[r] \in Existing
       THEN \/ /\ content[name[r]] = "empty"
               /\ content' = [content EXCEPT ![name[r]] = "partial"]
               /\ UNCHANGED stage
            \/ /\ \E c \in {"partial", "full"} :
                    content' = [content EXCEPT ![name[r]] = c]
               /\ Proceed(r, "count")
       ELSE Proceed(r, "discard") /\ UNCHANGED content
    /\ UNCHANGED <<created, alias, name, previous, todo, former, countVars>>

\* Faulty: the points are counted but the outcome is ignored.
UncheckedCollection(r) == TRUE

\* check_new_collection: the count, and smoke queries that may fail.
CheckedCollection(r) == name[r] \in Existing /\ content[name[r]] = "full"

CheckNewCollection(r) ==
    /\ stage[r] = "count"
    /\ \/ CheckedCollection(r) /\ Proceed(r, "swap")
       \/ Proceed(r, "discard")
    /\ UNCHANGED <<created, content, alias, name, previous, todo, former,
                   countVars>>

\* A call raises.  What fills and checks the new collection is caught, and
\* goes on to delete it; anything else ends the run where it is.
Raise(r) ==
    /\ stage[r] \in {"index", "upsert", "count", "candidates"}
    /\ failures < MaxFailures
    /\ failures' = failures + 1
    /\ Proceed(r, IF stage[r] \in {"upsert", "count"} THEN "discard" ELSE "idle")
    /\ UNCHANGED <<created, content, alias, name, previous, todo, former,
                   kills, stranded, rollbacks>>

\* Faulty: the half-built collection is left behind.
KeepHalfBuilt(r) == UNCHANGED <<content, alias>>

DeleteHalfBuilt(r) == DeleteCollection(name[r])

\* Whatever fails before the swap deletes the new collection.
Discard(r) ==
    /\ stage[r] = "discard"
    /\ DeleteHalfBuilt(r)
    /\ Proceed(r, "idle")
    /\ UNCHANGED <<created, name, previous, todo, former, countVars>>

\* swap_alias: one request deletes the alias and creates it again.
SwapAlias(r) ==
    /\ stage[r] \in {"swap", "rollback"}
    /\ IF name[r] \in Existing
       THEN /\ alias' = name[r]
            /\ former' = IF stage[r] = "swap" THEN alias ELSE former
            /\ Proceed(r, IF stage[r] = "swap" THEN "list" ELSE "idle")
       ELSE Proceed(r, "idle") /\ UNCHANGED <<alias, former>>
    /\ UNCHANGED <<created, content, name, previous, todo, countVars>>

Kept(r) == {name[r], previous[r]}

\* drop_old_collections lists the collections and deletes the others one by
\* one.
ListOld(r) ==
    /\ stage[r] = "list"
    /\ todo' = [todo EXCEPT ![r] = Existing \ Kept(r)]
    /\ Proceed(r, "drop")
    /\ UNCHANGED <<created, content, alias, name, previous, former, countVars>>

Drop(r) ==
    /\ stage[r] = "drop"
    /\ IF todo[r] = {}
       THEN Proceed(r, "idle") /\ UNCHANGED <<content, alias, todo>>
       ELSE /\ \E c \in todo[r] :
                /\ DeleteCollection(c)
                /\ todo' = [todo EXCEPT ![r] = @ \ {c}]
            /\ UNCHANGED stage
    /\ UNCHANGED <<created, name, previous, former, countVars>>

\* The clean-up of a failed run, the swap, or the deletion of old collections
\* raises, and what it should have left behind or removed stays.
Strand(r) ==
    /\ stage[r] \in {"discard", "swap", "rollback", "list", "drop"}
    /\ stranded < MaxStranded
    /\ stranded' = stranded + 1
    /\ Proceed(r, "idle")
    /\ UNCHANGED <<created, content, alias, name, previous, todo, former,
                   kills, failures, rollbacks>>

(***************************************************************************)
(* rollback(), and processes that are killed.                              *)
(***************************************************************************)

ReadCurrent(r) ==
    /\ stage[r] = "idle" /\ rollbacks < MaxRollbacks
    /\ rollbacks' = rollbacks + 1
    /\ previous' = [previous EXCEPT ![r] = alias]
    /\ Proceed(r, "candidates")
    /\ UNCHANGED <<created, content, alias, name, todo, former, kills, failures,
                   stranded>>

\* Faulty: empty collections are candidates as well.
CandidatesAny(r) == Existing \ {previous[r]}

Candidates(r) == {c \in Existing \ {previous[r]} : content[c] # "empty"}

\* The newest other collection that is not empty, if there is one.
ChooseTarget(r) ==
    /\ stage[r] = "candidates"
    /\ IF Candidates(r) = {}
       THEN Proceed(r, "idle") /\ UNCHANGED name
       ELSE /\ name' = [name EXCEPT ![r] = Max(Candidates(r))]
            /\ Proceed(r, "rollback")
    /\ UNCHANGED <<created, content, alias, previous, todo, former, countVars>>

\* The process dies without an exception.
Kill(r) ==
    /\ stage[r] # "idle" /\ kills < MaxKills
    /\ kills' = kills + 1
    /\ Proceed(r, "idle")
    /\ UNCHANGED <<created, content, alias, name, previous, todo, former,
                   failures, stranded, rollbacks>>

Ingest(r) ==
    \/ ReadTarget(r) \/ CreateCollection(r) \/ CreatePayloadIndex(r)
    \/ Upsert(r) \/ CheckNewCollection(r) \/ Raise(r) \/ Discard(r)
    \/ SwapAlias(r) \/ ListOld(r) \/ Drop(r) \/ Strand(r)

Rollback(r) == ReadCurrent(r) \/ ChooseTarget(r)

IngestNext == \E r \in Runs : Ingest(r) \/ Rollback(r) \/ Kill(r)

IngestSpec == IngestInit /\ [][IngestNext]_ingestVars

(***************************************************************************)
(* Properties.                                                             *)
(***************************************************************************)

\* Once the alias has a target, readers of the alias always reach a
\* collection that holds points.
Served == alias # 0 /\ content[alias] # "empty"
AliasServes == [][Served => Served']_ingestVars

\* The alias only ever points to a collection that was filled and checked,
\* whatever calls raise, as long as every failed run could clean up.
CleanedUp == kills = 0 /\ stranded = 0
AliasIsChecked == CleanedUp /\ alias # 0 => content[alias] = "full"

\* A run that ends well leaves its own collection, which serves, and the one
\* it replaced to go back to, and clears whatever earlier runs that failed or
\* were killed have left behind.
Tidy ==
    \A r \in Runs : stage[r] = "drop" /\ todo[r] = {} =>
        Existing = {name[r], previous[r]} \ {0} /\ alias = name[r]

\* What the readers of the alias get is checked, and nothing else is left over.
AliasIsSound == AliasIsChecked /\ Tidy

\* README.md: "ingest.py --rollback points the alias back at the previous
\* non-empty collection", the one that served before the last swap, if every
\* failed run could clean up; a further rollback goes forward again.
RollbackReturns ==
    [][\A r \in Runs :
        stage[r] = "rollback" /\ CleanedUp /\ alias' # alias
          /\ former # 0 /\ alias # former
          => alias' = former]_ingestVars

=============================================================================
