---------------------------- MODULE MemoryStore ----------------------------
(***************************************************************************)
(* The memory store, memory/sqlite_store.py, its write policy and the      *)
(* episodes condensed from finished runs (memory/condenser.py, models.py). *)
(* Every operation is one committed transaction; time orders the writes.   *)
(***************************************************************************)
EXTENDS Integers, Sequences, FiniteSets, SequencesExt

CONSTANTS
    Namespaces,   \* the stores' namespaces
    Facts         \* keys of the memories that are not episodes

VARIABLES
    rows,     \* the table
    clock     \* writes so far, which orders updated_at

memoryVars == <<rows, clock>>

EpisodeKey(run) == <<"episode", run>>

Matching(namespace, key) ==
    {row \in rows : row.namespace = namespace /\ row.key = key}

-----------------------------------------------------------------------------
(* put_memory.                                                             *)

(* A new row whose primary key is taken violates the table's constraint:   *)
(* the insert raises and changes nothing.                                  *)
Accepts(record) ==
    \/ Matching(record.namespace, record.key) # {}
    \/ \A row \in rows : row.id # record.id

(* Faulty variant: conflicts are found by key alone. *)
UpsertedByKey(record) ==
    LET old == {row \in rows : row.key = record.key}
    IN (rows \ old) \cup {record}

(* The row with this namespace and key gets the record's content and       *)
(* metadata, and keeps its own id and type.                                *)
Upserted(record) ==
    LET old == Matching(record.namespace, record.key)
    IN (rows \ old) \cup
          (IF old = {} THEN {record}
           ELSE {[record EXCEPT !.id = row.id, !.type = row.type] : row \in old})

PutMemory(record) ==
    /\ Accepts(record)
    /\ rows' = Upserted(record)
    /\ clock' = clock + 1

(* get_memory_by_key, list_namespace_memories, list_episodes_by_namespace. *)
Memories(namespace) == {row \in rows : row.namespace = namespace}

RecentEpisodes(namespace, limit) ==
    LET episodes == {row \in Memories(namespace) : row.type = "episodic"}
    IN {row \in episodes :
          Cardinality({later \in episodes : later.updated > row.updated}) < limit}

-----------------------------------------------------------------------------
(* inspect_and_commit: rejected and noisy candidates never reach the       *)
(* store.  The caller chooses the type; only "episodic" is told from the   *)
(* others.                                                                 *)
Verdict(kind) ==
    CASE kind = "instruction" -> "rejected_sensitive"
      [] kind = "noise" -> "skipped_noise"
      [] OTHER -> "committed"

InspectAndCommit(namespace, key, kind, type, content) ==
    /\ Verdict(kind) = "committed"
    /\ PutMemory([id |-> <<"memory", clock>>, namespace |-> namespace, key |-> key,
                  type |-> type, content |-> content, updated |-> clock])

-----------------------------------------------------------------------------
(* Episodes.  A decision is the sequence of its parts around the separator *)
(* "|": one part, unless its rationale contains the separator.             *)

Joined(decisions) == FlattenSeq(decisions)

Split(parts) == [i \in DOMAIN parts |-> <<parts[i]>>]

(* EpisodeRecord.to_memory_record *)
ToMemoryRecord(episode, namespace) ==
    [id |-> episode.id, namespace |-> namespace, key |-> EpisodeKey(episode.run),
     type |-> "episodic", updated |-> clock,
     content |-> [id |-> episode.id, run |-> episode.run, outcome |-> episode.outcome,
                  steps |-> episode.steps, decisions |-> Joined(episode.decisions)]]

(* EpisodeRecord.from_memory_record *)
FromMemoryRecord(row) ==
    [row.content EXCEPT !.decisions = Split(@)]

PutEpisode(episode, namespace) == PutMemory(ToMemoryRecord(episode, namespace))

=============================================================================
