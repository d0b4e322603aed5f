----------------------------- MODULE MemoryPort -----------------------------
(***************************************************************************)
(* What the memory controller promises to the interconnect, with no banks, *)
(* rows, refreshes or pipeline: it takes accesses while it has room,       *)
(* performs them one at a time in the order it took them, and answers the  *)
(* reads, each once, in the order it performed them.  A reset forgets      *)
(* whatever is on its way.                                                 *)
(*                                                                         *)
(* Sdram implements this specification; the mapping is there.  Fabric uses *)
(* it as its memory.                                                       *)
(***************************************************************************)
EXTENDS Naturals, Sequences, FiniteSets

CONSTANTS
    Requests,     \* accesses, records with a field rnw (read, not write)
    NoRequest,
    Room,         \* accesses it holds at most before they are performed
    MaxPending    \* reads it has taken at most and not answered: 7

VARIABLES
    queue,        \* taken and not yet performed, oldest first
    performed,    \* the access performed last clock, or NoRequest
    reading,      \* reads performed and not yet answered
    answered      \* the read answered last clock, or NoRequest

portVars == <<queue, performed, reading, answered>>

PortInit ==
    /\ queue = <<>> /\ performed = NoRequest
    /\ reading = <<>> /\ answered = NoRequest

\* The oldest access is performed, or none is; what arrives goes to the back.
PerformAndTake(performs, arriving) ==
    IF performs
      THEN /\ queue # <<>>
           /\ performed' = Head(queue)
           /\ queue' = Tail(queue) \o arriving
      ELSE /\ performed' = NoRequest
           /\ queue' = queue \o arriving

\* The oldest read is answered, or none is; a read performed joins the back.
Answer(answers) ==
    LET read == IF performed' # NoRequest /\ performed'.rnw
                  THEN <<performed'>> ELSE <<>>
    IN  IF answers
          THEN /\ reading # <<>>
               /\ answered' = Head(reading)
               /\ reading' = Tail(reading) \o read
          ELSE answered' = NoRequest /\ reading' = reading \o read

\* The reads whose answer is still to come, the one answered now included: the
\* interconnect keeps a note of so many.
Noted ==
    Cardinality({i \in DOMAIN queue : queue[i].rnw}) + Len(reading)
        + (IF answered # NoRequest THEN 1 ELSE 0)

PortClock(arriving, performs, answers) ==
    /\ PerformAndTake(performs, arriving) /\ Answer(answers)
    /\ Len(queue') <= Room /\ Noted' <= MaxPending

PortReset ==
    /\ queue' = <<>> /\ performed' = NoRequest
    /\ reading' = <<>> /\ answered' = NoRequest

PortNext ==
    \/ \E performs, answers \in BOOLEAN :
           \/ PortClock(<<>>, performs, answers)
           \/ \E r \in Requests : PortClock(<<r>>, performs, answers)
    \/ PortReset

PortSpec == PortInit /\ [][PortNext]_portVars
=============================================================================
