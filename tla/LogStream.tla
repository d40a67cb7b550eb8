----------------------------- MODULE LogStream ------------------------------
(***************************************************************************)
(* The Logs page and GET /logs/:projectId/stream: an EventSource per       *)
(* selected project, closed when the selection or the mode changes, and a  *)
(* handler that follows the log of the container chunk by chunk. A line is *)
(* known by its project, its number and the part of it that a chunk held.  *)
(***************************************************************************)
EXTENDS Naturals, Sequences, SequencesExt

CONSTANTS
  Projects, NoProject,
  TailLines, \* tailLines: 100
  Keep,     \* lines kept when one is added: 500
  MaxLog    \* bound: lines a container logs

ASSUME LogAssumption ==
  TailLines \in Nat /\ Keep \in Nat /\ MaxLog \in Nat /\ NoProject \notin Projects

VARIABLES
  logged,     \* per project: lines its container has written
  selected,   \* the project of the page
  mode,       \* live or build
  lines,      \* state of the page
  source,     \* the EventSource: its project, its state, the next line to send
              \* and whether a chunk ended within that line
  wire        \* messages sent and not yet dispatched

Message == [project : Projects, n : 0..MaxLog, part : {"whole", "head", "rest", "waiting"}]
NoSource == [project |-> NoProject, state |-> "closed", next |-> 1, cut |-> FALSE]

LogTypeOK ==
  /\ logged \in [Projects -> 0..MaxLog]
  /\ selected \in Projects \cup {NoProject} /\ mode \in {"live", "build"}
  /\ \A m \in ToSet(lines) \cup ToSet(wire) : m \in Message
  /\ Len(lines) <= Keep + 1
  /\ source.state \in {"connecting", "open", "ending", "closed"}
  /\ source.state # "closed" => source.project = selected /\ mode = "live"

LogInit ==
  /\ logged \in [Projects -> 0..MaxLog]
  /\ selected = NoProject /\ mode = "live"
  /\ lines = <<>> /\ source = NoSource /\ wire = <<>>

\* Mutant: the former stream's lines are kept.
BugOpenStream(p, m) ==
  /\ wire' = <<>>
  /\ IF p = NoProject \/ m # "live"
     THEN source' = NoSource /\ UNCHANGED lines
     ELSE /\ UNCHANGED lines
          /\ source' = [NoSource EXCEPT !.project = p, !.state = "connecting"]

\* The effect of the page: the former EventSource is closed, and what is still
\* on its way is not dispatched any more.
OpenStream(p, m) ==
  /\ wire' = <<>>
  /\ IF p = NoProject \/ m # "live"
     THEN source' = NoSource /\ UNCHANGED lines
     ELSE /\ lines' = <<>>
          /\ source' = [NoSource EXCEPT !.project = p, !.state = "connecting"]

Select(p) ==
  /\ p # selected
  /\ selected' = p
  /\ OpenStream(p, mode)
  /\ UNCHANGED <<logged, mode>>

SetMode(m) ==
  /\ m # mode
  /\ mode' = m
  /\ OpenStream(selected, m)
  /\ UNCHANGED <<logged, selected>>

Clear ==
  /\ lines' = <<>>
  /\ UNCHANGED <<logged, selected, mode, source, wire>>

\* streamLogs found the container: the last TailLines lines, then those that follow.
Follow ==
  /\ source.state = "connecting"
  /\ LET n == logged[source.project] IN
       source' = [source EXCEPT !.state = "open", !.next = IF n > TailLines THEN n - TailLines + 1 ELSE 1]
  /\ UNCHANGED <<logged, selected, mode, lines, wire>>

\* Without a container one message is sent and the response ended.
Waiting ==
  /\ source.state = "connecting"
  /\ wire' = <<[project |-> source.project, n |-> 0, part |-> "waiting"]>>
  /\ source' = [source EXCEPT !.state = "ending"]
  /\ UNCHANGED <<logged, selected, mode, lines>>

LogLine(p) ==
  /\ logged[p] < MaxLog
  /\ logged' = [logged EXCEPT ![p] = @ + 1]
  /\ UNCHANGED <<selected, mode, lines, source, wire>>

\* Writable.write splits a chunk at line ends; what a chunk holds of a line at
\* its edge is sent as a message of its own.
Chunk(cut) ==
  /\ source.state = "open" /\ source.next <= logged[source.project]
  /\ cut => ~ source.cut
  /\ wire' = Append(wire, [project |-> source.project, n |-> source.next,
       part |-> IF cut THEN "head" ELSE IF source.cut THEN "rest" ELSE "whole"])
  /\ source' = IF cut THEN [source EXCEPT !.cut = TRUE]
               ELSE [source EXCEPT !.cut = FALSE, !.next = @ + 1]
  /\ UNCHANGED <<logged, selected, mode, lines>>

\* The container ends, the connection breaks, or the request is refused.
EndStream ==
  /\ source.state \in {"connecting", "open"}
  /\ source' = [source EXCEPT !.state = "ending"]
  /\ UNCHANGED <<logged, selected, mode, lines, wire>>

\* onmessage: setLines(prev => [...prev.slice(-500), e.data]).
OnMessage ==
  /\ source.state \in {"open", "ending"} /\ wire # <<>>
  /\ lines' = Append(SubSeq(lines, IF Len(lines) > Keep THEN Len(lines) - Keep + 1 ELSE 1, Len(lines)),
                     Head(wire))
  /\ wire' = Tail(wire)
  /\ UNCHANGED <<logged, selected, mode, source>>

\* onerror closes the EventSource for good; the badge stays `Streaming`.
OnError ==
  /\ source.state = "ending" /\ wire = <<>>
  /\ source' = NoSource
  /\ UNCHANGED <<logged, selected, mode, lines, wire>>

LogNext ==
  \/ \E p \in Projects \cup {NoProject} : Select(p)
  \/ \E m \in {"live", "build"} : SetMode(m)
  \/ \E p \in Projects : LogLine(p)
  \/ \E cut \in BOOLEAN : Chunk(cut)
  \/ Clear \/ Follow \/ Waiting \/ EndStream \/ OnMessage \/ OnError

logVars == <<logged, selected, mode, lines, source, wire>>

LogSpec == LogInit /\ [][LogNext]_logVars

-----------------------------------------------------------------------------
(* Properties.                                                             *)

Follows(a, b) ==
  \/ a.part \in {"whole", "rest"} /\ b.part \in {"whole", "head"} /\ b.n = a.n + 1
  \/ a.part = "head" /\ b.part = "rest" /\ b.n = a.n

\* The live lines are those of the selected project, none missing and none
\* twice between the first and the last, whichever stream was open before and
\* however the chunks were cut.
LinesOfSelected ==
  mode = "live" /\ selected # NoProject =>
    /\ \A i \in 1..Len(lines) : lines[i].project = selected
    /\ \A i \in 1..(Len(lines) - 1) : Follows(lines[i], lines[i + 1])

=============================================================================
