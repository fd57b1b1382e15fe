---------------------------- MODULE AsyncLogging ----------------------------
(***************************************************************************)
(* AsyncLogging (src/JKYi/reactor/AsyncLogging.{h,cc}): threads append     *)
(* lines to buffers under mutex_; the logging thread swaps the buffers out *)
(* and writes them to the file without it, one after the other.  A line is *)
(* <<number, length>>.                                                     *)
(***************************************************************************)
EXTENDS Naturals, Sequences, Functions

CONSTANTS BufferSize,  \* kLargeBuffer, the bytes of a buffer
          Lengths,     \* of lines
          MaxWaiting,  \* 25: more buffers than that are thrown away
          MaxLines     \* bound: lines that are appended

ASSUME LoggingAssumption ==
    BufferSize \in Nat /\ Lengths \subseteq Nat /\ MaxWaiting \in Nat \ {0}

VARIABLES
  currentBuffer_, nextBuffer_,  \* nextBuffer_: there is one
  buffers_,
  running_,
  logAt,                        \* threadFunc: "test", "swap", "discard", "write", "end"
  newBuffer1, newBuffer2,       \* there is one, and it is empty
  buffersToWrite, spent,        \* those not written yet; how many have been
  file,
  lines,                        \* all lines that were appended
  thrown,                       \* those thrown away because too many buffers waited
  exact,                        \* those no shorter than the room they found
  failed                        \* an assertion failed
logVars == <<currentBuffer_, nextBuffer_, buffers_, running_, logAt, newBuffer1, newBuffer2,
             buffersToWrite, spent, file, lines, thrown, exact, failed>>
front == <<currentBuffer_, nextBuffer_, buffers_, lines, exact>>
back == <<logAt, newBuffer1, newBuffer2, buffersToWrite, spent, file, thrown, failed>>

\* FixedBuffer: its lines, and cur_ - data_.
Empty == [data_ |-> <<>>, cur_ |-> 0]
avail(b) == BufferSize - b.cur_
\* A line that would fill the buffer exactly is not stored.
Stored(b, l) ==
    IF avail(b) > l[2] THEN [data_ |-> Append(b.data_, l), cur_ |-> b.cur_ + l[2]] ELSE b

LogInit ==
    /\ currentBuffer_ = Empty /\ nextBuffer_ = TRUE /\ buffers_ = <<>> /\ running_ = TRUE
    /\ logAt = "test" /\ newBuffer1 = TRUE /\ newBuffer2 = TRUE /\ buffersToWrite = <<>>
    /\ spent = 0 /\ file = <<>> /\ lines = <<>> /\ thrown = {} /\ exact = {} /\ failed = FALSE

append(n) ==
    LET l == <<Len(lines) + 1, n>> IN
    /\ Len(lines) < MaxLines /\ lines' = Append(lines, l)
    /\ IF avail(currentBuffer_) >= n
       THEN /\ currentBuffer_' = Stored(currentBuffer_, l)
            /\ exact' = IF avail(currentBuffer_) = n THEN exact \cup {l} ELSE exact
            /\ UNCHANGED <<nextBuffer_, buffers_>>
       ELSE /\ buffers_' = Append(buffers_, currentBuffer_)
            /\ nextBuffer_' = FALSE                     \* taken, or a new one is made
            /\ currentBuffer_' = Stored(Empty, l)
            /\ exact' = IF n >= BufferSize THEN exact \cup {l} ELSE exact
    /\ UNCHANGED <<running_, back>>

stopLogging ==
    /\ running_ /\ running_' = FALSE
    /\ UNCHANGED <<front, back>>

LogWhile ==
    /\ logAt = "test" /\ logAt' = IF running_ THEN "swap" ELSE "end"
    /\ failed' = (failed \/ (running_ /\ ~(newBuffer1 /\ newBuffer2 /\ buffersToWrite = <<>>)))
    /\ UNCHANGED <<front, running_, newBuffer1, newBuffer2, buffersToWrite, spent, file, thrown>>

\* Mutant: the buffer in use is taken first.
SwapCurrentFirst ==
    /\ logAt = "swap" /\ logAt' = "discard"
    /\ buffersToWrite' = <<currentBuffer_>> \o buffers_ /\ buffers_' = <<>>
    /\ currentBuffer_' = Empty /\ newBuffer1' = FALSE
    /\ nextBuffer_' = TRUE /\ newBuffer2' = nextBuffer_
    /\ UNCHANGED <<running_, spent, file, lines, exact, thrown, failed>>
\* Under mutex_, after a wait that ends by itself: both new buffers may be handed out.
Swap ==
    /\ logAt = "swap" /\ logAt' = "discard"
    /\ buffersToWrite' = Append(buffers_, currentBuffer_) /\ buffers_' = <<>>
    /\ currentBuffer_' = Empty /\ newBuffer1' = FALSE
    /\ nextBuffer_' = TRUE /\ newBuffer2' = nextBuffer_
    /\ UNCHANGED <<running_, spent, file, lines, exact, thrown, failed>>

\* Of too many buffers the first two are left.  The notice it writes is no line of a caller.
Discard ==
    /\ logAt = "discard" /\ logAt' = "write"
    /\ IF Len(buffersToWrite) > MaxWaiting
       THEN /\ buffersToWrite' = SubSeq(buffersToWrite, 1, 2)
            /\ thrown' = thrown \cup UNION {Range(buffersToWrite[i].data_) :
                                               i \in 3..Len(buffersToWrite)}
       ELSE UNCHANGED <<buffersToWrite, thrown>>
    /\ UNCHANGED <<front, running_, newBuffer1, newBuffer2, spent, file, failed>>

Write ==
    /\ logAt = "write" /\ buffersToWrite # <<>>
    /\ file' = file \o Head(buffersToWrite).data_
    /\ buffersToWrite' = Tail(buffersToWrite) /\ spent' = spent + 1
    /\ UNCHANGED <<front, running_, logAt, newBuffer1, newBuffer2, thrown, failed>>

\* One or two of the buffers that were written become new buffers.
Reuse ==
    /\ logAt = "write" /\ buffersToWrite = <<>> /\ logAt' = "test"
    /\ failed' = (failed \/ spent < (IF newBuffer2 THEN 1 ELSE 2))
    /\ newBuffer1' = TRUE /\ newBuffer2' = TRUE /\ spent' = 0
    /\ UNCHANGED <<front, running_, buffersToWrite, file, thrown>>

LogNext ==
    (\E n \in Lengths : append(n)) \/ stopLogging \/ LogWhile \/ Swap \/ Discard \/ Write \/ Reuse
LogSpec == LogInit /\ [][LogNext]_logVars
-----------------------------------------------------------------------------
\* The buffers that are not written yet, in the order in which they were filled.
Waiting == Append(buffersToWrite \o buffers_, currentBuffer_)
Sorted(s) == \A i, j \in DOMAIN s : i < j => s[i][1] < s[j][1]
Before(s, t) == \A i \in DOMAIN s, j \in DOMAIN t : s[i][1] < t[j][1]

\* Every line that was appended is in the file or in a buffer, once and in order, but for the ones
\* thrown away because too many buffers waited (AsyncLogging.cc:83) and for a line that fills its
\* buffer exactly, which append() takes for one that fits and FixedBuffer does not
\* (AsyncLogging.cc:31, LogStream.h:28); and the logging thread always gets its two buffers back
\* (AsyncLogging.cc:57, 93, 99).
NoLineLost ==
    /\ ~failed
    /\ Sorted(file)
    /\ \A i \in DOMAIN Waiting :
          /\ Sorted(Waiting[i].data_) /\ Before(file, Waiting[i].data_)
          /\ \A j \in DOMAIN Waiting : i < j => Before(Waiting[i].data_, Waiting[j].data_)
    /\ Range(lines) \subseteq Range(file) \cup thrown \cup exact
                              \cup UNION {Range(Waiting[i].data_) : i \in DOMAIN Waiting}
=============================================================================
