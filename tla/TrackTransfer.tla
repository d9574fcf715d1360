----------------------------- MODULE TrackTransfer -----------------------------
(***************************************************************************)
(* The bytes of one file: Orchestrator.download_file, the response rules   *)
(* of core/download_response.py, and the judgement of the file by          *)
(* prepare_work and resume_job between two transfers.  Orchestrator knows  *)
(* a file by its size class only; here a file is a sequence of bytes, byte *)
(* i of the source being the number i and every other byte 0.  An empty    *)
(* file and a missing one are the same, as they are to                     *)
(* local_partial_size.                                                     *)
(*                                                                         *)
(* The server is external: it answers anything, but the bytes it sends are *)
(* those of the source at the place its headers name.                      *)
(***************************************************************************)
EXTENDS Naturals, Sequences

CONSTANTS
  SourceSize,     \* bytes of the file on the server
  Sizes,          \* sizes the track list may give it, 0 when it gives none
  TagLength,      \* bytes that tags add (tag_audio), 0 when it is off
  RetryCount      \* config.retry_count

ASSUME TransferAssumption ==
  /\ SourceSize \in Nat \ {0}
  /\ Sizes \subseteq Nat
  /\ TagLength \in Nat
  /\ RetryCount \in Nat \ {0}

VARIABLES
  final, part,            \* the file and its .part file
  status, total,          \* row of the file: status, total_bytes
  size,                   \* track.size of the listing in use
  phase, attempt,         \* position in download_file
  existing_size,          \* offset asked for
  pos, end,               \* the body being received: bytes pos+1..end of the source
  smooth                  \* history: nothing went wrong since the transfer began

fileVars     == <<final, part>>
rowVars      == <<status, total>>
transferVars == <<phase, attempt, existing_size, pos, end>>
vars == <<fileVars, rowVars, size, transferVars, smooth>>

Phases == {"idle", "trim", "asking", "writing", "published", "backoff"}
\* paused stands for cancelled too, completed for registered.
Statuses == {"none", "queued", "downloading", "paused", "failed", "completed"}

Contents == Seq(0..SourceSize)

TransferTypeOK ==
  /\ final \in Contents /\ part \in Contents
  /\ status \in Statuses
  /\ total \in Nat
  /\ size \in Sizes \union {0}
  /\ phase \in Phases
  /\ attempt \in 0..RetryCount
  /\ existing_size \in Nat
  /\ pos \in 0..end /\ end \in 0..SourceSize
  /\ smooth \in BOOLEAN

Prefix(n) == [i \in 1..n |-> i]           \* the first n bytes of the source
Tagged(f) == f \o [i \in 1..TagLength |-> 0]

-----------------------------------------------------------------------------
(* download_response.py                                                     *)

Usable(n) == n > 0 /\ (size > 0 => n <= size)

local_partial_size(p, f) ==
  IF Usable(Len(p)) THEN Len(p) ELSE IF Usable(Len(f)) THEN Len(f) ELSE 0

\* Mutant: the start of the range is not compared.
AppendableAnywhere(start, whole, sound) ==
  /\ sound
  /\ size > 0 => whole \in {0, size}

\* A 206 whose body may be written: its headers parse and agree (sound), it
\* starts where asked, its total is unknown (0) or the listed one.
Appendable(start, whole, sound) ==
  /\ sound
  /\ start = existing_size
  /\ size > 0 => whole \in {0, size}

-----------------------------------------------------------------------------
Init ==
  /\ final \in {Prefix(n) : n \in 0..SourceSize}     \* left by earlier downloads
  /\ part \in {Prefix(n) : n \in 0..SourceSize}
  /\ status = "none" /\ total = 0 /\ size = 0
  /\ phase = "idle" /\ attempt = 0 /\ existing_size = 0 /\ pos = 0 /\ end = 0
  /\ smooth = FALSE

\* prepare_work: the work is queued with a fresh listing.
Queue(listed) ==
  /\ phase = "idle"
  /\ size' = listed /\ total' = listed
  /\ status' = IF Len(final) = listed /\ listed > 0 THEN "completed" ELSE "queued"
  /\ smooth' = FALSE
  /\ UNCHANGED <<fileVars, transferVars>>

\* resume_job, with a listing that may give no size: then the row's total counts.
Expected(listed) == IF listed > 0 THEN listed ELSE total

\* A completed row is believed when the file is there with the right size.
Sound(expected) ==
  status = "completed" /\ final # <<>> /\ expected \in {0, Len(final)}
Oversized(expected) ==
  expected > 0 /\ (Len(final) > expected \/ Len(part) > expected)

Judged(expected) ==
  IF Sound(expected) THEN "sound"
  ELSE IF Oversized(expected) THEN "over"
  ELSE IF expected > 0 /\ Len(final) = expected THEN "final"
  ELSE IF expected > 0 /\ Len(part) = expected THEN "part" ELSE "missing"

Resume(listed) ==
  /\ phase = "idle" /\ status # "none"
  /\ size' = listed
  /\ smooth' = FALSE
  /\ LET expected == Expected(listed) IN
     \/ /\ Judged(expected) = "sound"
        /\ part' = <<>>
        /\ UNCHANGED <<final, rowVars>>
     \/ /\ status' = "failed" /\ total' = expected    \* "over", or the OS refuses
        /\ UNCHANGED fileVars                         \* to inspect or rename
     \/ /\ Judged(expected) = "final"
        /\ status' = "completed" /\ total' = expected
        /\ part' = <<>>
        /\ UNCHANGED final
     \/ /\ Judged(expected) = "part"                 \* a crash may lose the row
        /\ final' = part /\ part' = <<>>
        /\ \/ status' = "completed" /\ total' = expected
           \/ UNCHANGED rowVars
     \/ /\ Judged(expected) = "missing"
        /\ status' = "queued" /\ total' = expected
        /\ UNCHANGED fileVars
  /\ UNCHANGED transferVars

-----------------------------------------------------------------------------
(* download_file: from its entry to the first request.                      *)

\* The file is there: recorded without a request.
AlreadyThere ==
  /\ phase = "idle" /\ status \in {"queued", "completed"}
  /\ size > 0 /\ Len(final) = size
  /\ status' = "completed" /\ total' = size
  /\ part' = <<>>
  /\ smooth' = TRUE
  /\ UNCHANGED <<final, size, transferVars>>

\* The .part file once a final file of another size is out of the way.
Incomplete ==
  IF (size = 0 \/ Len(final) < size) /\ Len(part) < Len(final) THEN final ELSE part

Begin ==
  /\ phase = "idle" /\ status = "queued"
  /\ ~(size > 0 /\ Len(final) = size)
  /\ part' = Incomplete /\ final' = <<>>
  /\ phase' = "trim"
  /\ smooth' = TRUE
  /\ UNCHANGED <<rowVars, size, attempt, existing_size, pos, end>>

StartsAttempt ==
  /\ phase' = "asking"
  /\ status' = "downloading" /\ total' = size

Trim ==
  /\ phase = "trim"
  /\ part' = IF size > 0 /\ Len(part) > size THEN <<>> ELSE part
  /\ existing_size' = local_partial_size(part', final)
  /\ attempt' = 1
  /\ StartsAttempt
  /\ UNCHANGED <<final, size, pos, end, smooth>>

\* The OS refuses to move or remove a file: nothing is recorded.
LocalError ==
  /\ phase = "trim"
  /\ phase' = "idle"
  /\ smooth' = FALSE
  /\ UNCHANGED <<fileVars, rowVars, size, attempt, existing_size, pos, end>>

-----------------------------------------------------------------------------
(* The end of an attempt and of the transfer.                               *)

AtRest == phase' = "idle" /\ attempt' = 0 /\ existing_size' = 0 /\ pos' = 0 /\ end' = 0

\* Mutants: attempts without an end.
NeverLast   == FALSE
SameAttempt == attempt

LastAttempt == attempt = RetryCount
NextAttempt == attempt + 1

\* The attempt ends in an exception, with these files.
AttemptFails(p, f) ==
  LET actual == local_partial_size(p, f) IN
  /\ part' = p /\ final' = f
  /\ IF LastAttempt
     THEN /\ AtRest
          /\ status' = IF actual > 0 THEN "paused" ELSE "failed"
          /\ total' = size
     ELSE /\ phase' = "backoff" /\ existing_size' = actual
          /\ pos' = 0 /\ end' = 0
          /\ UNCHANGED <<attempt, rowVars>>
  /\ UNCHANGED size

Publish(p) ==
  /\ final' = p /\ part' = <<>>
  /\ phase' = "published" /\ pos' = 0 /\ end' = 0
  /\ UNCHANGED <<rowVars, size, attempt, existing_size>>

\* Mutant: after a reset the next request still names the old offset.
KeptOffset == existing_size

OffsetAfterReset == 0

\* retry_from_zero: the local data do not fit the response.
Reset ==
  LET kept == IF Len(final) = size THEN final ELSE <<>> IN
  IF LastAttempt THEN AttemptFails(<<>>, kept)
  ELSE /\ part' = <<>> /\ final' = kept
       /\ phase' = "backoff" /\ existing_size' = OffsetAfterReset
       /\ UNCHANGED <<rowVars, size, attempt, pos, end>>

-----------------------------------------------------------------------------
(* Responses.                                                               *)

\* No connection, a timeout, another HTTP status.
AnswerError ==
  /\ phase = "asking"
  /\ smooth' = FALSE
  /\ AttemptFails(part, final)

\* 416: complete_local or retry_from_zero.  Since Begin there is no final file, so
\* the local size is that of the .part file.
AnswerUnsatisfiable ==
  /\ phase = "asking"
  /\ smooth' = (smooth /\ existing_size >= SourceSize)
  /\ IF size > 0 /\ local_partial_size(part, final) = size
     THEN Publish(part)
     ELSE Reset

\* Mutant: every body is appended.
AppendedTo(offset) == part

\* The .part file when it is opened for a body: mode ab or wb.
Opened(offset) == IF offset > 0 THEN part ELSE <<>>

Receives(offset, first, last) ==
  /\ part' = Opened(offset)
  /\ phase' = "writing" /\ pos' = first /\ end' = last
  /\ UNCHANGED <<final, rowVars, size, attempt, existing_size>>

\* 200: the source from its first byte, perhaps cut short.
AnswerWhole(last) ==
  /\ phase = "asking"
  /\ smooth' = (smooth /\ last = SourceSize)
  /\ Receives(0, 0, last)

\* 206 with a Content-Range.
AnswerRange(start, last, whole, sound) ==
  /\ phase = "asking"
  /\ smooth' = ( /\ smooth
                 /\ sound /\ start = existing_size /\ start > 0
                 /\ last = SourceSize /\ whole \in {0, SourceSize})
  /\ IF Appendable(start, whole, sound)
     THEN Receives(existing_size, start, last)
     ELSE Reset

Answer ==
  \/ AnswerError
  \/ AnswerUnsatisfiable
  \/ \E last \in 0..SourceSize : AnswerWhole(last)
  \/ \E start \in 0..(SourceSize - 1), whole \in Sizes \union {0, SourceSize},
        sound \in BOOLEAN :
       \E last \in (start + 1)..SourceSize : AnswerRange(start, last, whole, sound)

ReceiveByte ==
  /\ phase = "writing" /\ pos < end
  /\ part' = Append(part, pos + 1)
  /\ pos' = pos + 1
  /\ UNCHANGED <<final, rowVars, size, phase, attempt, existing_size, end, smooth>>

\* Mutant: the end of the body is the end of the file.
BodyEnded == TRUE

FullyReceived == size > 0 => Len(part) = size

EndOfBody ==
  /\ phase = "writing" /\ pos = end
  /\ IF FullyReceived THEN Publish(part) ELSE AttemptFails(part, final)
  /\ UNCHANGED smooth

\* The stream breaks, or the disk refuses a byte or the renaming.
Break ==
  /\ phase = "writing"
  /\ smooth' = FALSE
  /\ AttemptFails(part, final)

Again ==
  /\ phase = "backoff"
  /\ attempt' = NextAttempt
  /\ StartsAttempt
  /\ UNCHANGED <<fileVars, size, existing_size, pos, end, smooth>>

\* Tags are written if the container takes them, then the row.
Record ==
  /\ phase = "published"
  /\ final' \in {final, Tagged(final)}
  /\ status' = "completed"
  /\ total' = IF size > 0 THEN size ELSE Len(final')
  /\ AtRest
  /\ UNCHANGED <<part, size, smooth>>

-----------------------------------------------------------------------------
(* Interruptions.                                                           *)

\* The task is cancelled at an await; the row is written by the handler or,
\* during a backoff, was by the command.
Stop ==
  /\ phase \in {"asking", "writing", "backoff"}
  /\ AtRest
  /\ status' = "paused" /\ total' = size
  /\ smooth' = FALSE
  /\ UNCHANGED <<fileVars, size>>

\* The process dies: bytes not yet flushed are lost, tags may be written.
Crash ==
  /\ phase # "idle"
  /\ AtRest
  /\ IF phase = "writing"
     THEN \E n \in 0..Len(part) : part' = SubSeq(part, 1, n)
     ELSE UNCHANGED part
  /\ final' \in {final} \union (IF phase = "published" THEN {Tagged(final)} ELSE {})
  /\ smooth' = FALSE
  /\ UNCHANGED <<rowVars, size>>

Work == Trim \/ LocalError \/ Answer \/ ReceiveByte \/ EndOfBody \/ Break \/ Again \/ Record

Next ==
  \/ \E listed \in Sizes : Queue(listed) \/ Resume(listed)
  \/ AlreadyThere \/ Begin
  \/ Work
  \/ Stop \/ Crash

Spec == Init /\ [][Next]_vars

\* Every request and every backoff ends (session timeouts), the loop goes on.
FairSpec == Spec /\ WF_vars(Work)

-----------------------------------------------------------------------------
(* Properties.                                                              *)

\* The bytes of c that stand where the source has a byte are that byte.
Intact(c) == \A i \in DOMAIN c : i <= SourceSize => c[i] = i
Whole(c)  == Len(c) >= SourceSize /\ Intact(c)

\* Resumed, restarted, cut or moved between the two names, a .part file is a
\* beginning of the source: no response is ever appended at a wrong place.
PartAligned == Intact(part)

\* A file recorded complete at the size of the source is the source (and tags),
\* not only a file of that length.
PublishedWhole ==
  status = "completed" /\ total = SourceSize => Whole(final)

\* Whatever earlier transfers left, one transfer with an honest server, a listing
\* that is right or silent and a second attempt ends with the whole file.
HonestServerSuffices ==
  phase = "idle" /\ smooth /\ size \in {0, SourceSize} /\ RetryCount > 1
    => status = "completed" /\ Whole(final)

\* A transfer that began ends: no response is answered by asking for ever.
TransferEnds == phase # "idle" ~> phase = "idle"

\* The bytes in place, SourceSize + 1 when they are not those of the source.
Least(m, n) == IF m <= n THEN m ELSE n
HeldIn(p, f) ==
  IF Intact(p) /\ Intact(f)
  THEN Least(SourceSize, IF Len(p) <= Len(f) THEN Len(f) ELSE Len(p))
  ELSE SourceSize + 1

Held     == HeldIn(part, final)
Complete == status = "completed" /\ total = SourceSize

Verified == INSTANCE VerifiedFile
              WITH Size <- SourceSize, held <- Held, complete <- Complete

\* download_file implements the abstract download: bytes only grow in order or
\* are given up, and completion is reported over the whole source only.
ImplementsVerifiedFile == Verified!Spec
===============================================================================
