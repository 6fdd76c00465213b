------------------------------- MODULE Topics -------------------------------
(***************************************************************************)
(* The vocabulary the pipeline modules share: partitions of the Redpanda   *)
(* topics, the records they carry, and the hypertable a record's row goes  *)
(* to (topics.py, db/writer.py, processor/service.py).                     *)
(*                                                                         *)
(* A record stands for one event and its natural key: two log entries with *)
(* the same record are the same source fact published twice, by a second   *)
(* ingestion or by a replay.                                               *)
(***************************************************************************)
EXTENDS Naturals, Sequences, FiniteSets

CONSTANTS
    Partitions,   \* partitions of all subscribed topics
    Records,      \* distinct events, identified by their natural key
    Poison,       \* the records whose bytes do not deserialise
    Tables,       \* hypertables with a natural primary key
    NoTable,      \* stands for "no row" (session metadata, poison)
    TableOf,      \* record -> table, from _TABLE_FOR_TYPE
    HomeOf,       \* record -> the partition its topic and session:driver key select
    GroupOf       \* partition -> the consumer group subscribed to its topic

\* The two consumer groups of the processor, telemetry started and stopped first.
Telemetry == "racestream-telemetry"
Timing    == "racestream-timing"
Groups    == {Telemetry, Timing}

ASSUME TopicsAssumption ==
    /\ IsFiniteSet(Partitions)
    /\ Poison \subseteq Records
    /\ NoTable \notin Tables
    /\ TableOf \in [Records -> Tables \union {NoTable}]
    /\ \A r \in Poison : TableOf[r] = NoTable
    /\ HomeOf \in [Records -> Partitions]
    /\ GroupOf \in [Partitions -> Groups]

\* A ConsumerRecord: partition, offset (counted from 1) and value.
Entries == Partitions \X (Nat \ {0}) \X Records

PartitionOf(e) == e[1]
OffsetOf(e)    == e[2]
RecordOf(e)    == e[3]

\* _row_for returns a row for this entry.
HasRow(e) == TableOf[RecordOf(e)] # NoTable

\* The records a set of entries carries.
RecordsOf(S) == {RecordOf(e) : e \in S}
=============================================================================
