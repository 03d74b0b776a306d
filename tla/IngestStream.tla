---------------------------- MODULE IngestStream ----------------------------
(***************************************************************************)
(* The Redis stream ingest:raw, written by the adapters (EnvelopeWriter)   *)
(* and read by the triage daemon.                                          *)
(***************************************************************************)
EXTENDS Naturals, Sequences, FiniteSets

CONSTANTS
    Items,          \* what the sources publish, an item possibly many times
    MaxEntries      \* bound: entries published

VARIABLE stream     \* the items published, in order

Entries == 1..MaxEntries

\* EnvelopeWriter.write: XADD after the raw file was staged under a fresh name.
XAdd(i) ==
    /\ Len(stream) < MaxEntries
    /\ stream' = Append(stream, i)
=============================================================================
