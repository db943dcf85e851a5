---------------------------- MODULE OutputBuffer ----------------------------
(***************************************************************************)
(* The output of one background task (plugins/background-tasks/src):       *)
(* shared.ts keeps the last max characters in chunks with one read cursor; *)
(* index.ts scans them, line by line, for the patterns of background_wait. *)
(*                                                                         *)
(* A character is a letter of Alphabet or the newline "n".  A pattern is   *)
(* the set of lines it matches.  stream, everything ever printed, is only  *)
(* here to say what the buffer must agree with.                            *)
(***************************************************************************)
EXTENDS Integers, Sequences, SequencesExt, FiniteSetsExt

CONSTANTS
    Alphabet,      \* the characters, "n" among them
    Pattern,       \* the lines the pattern of a wait matches
    Waiters,       \* the uses of background_wait
    Capacity,      \* options.maxBufferBytes
    MaxChunk, MaxStream  \* bounds of the model

VARIABLES
    buffer,        \* OutputBuffer: chunks, dropped, cursor (total is Len(stream))
    stream,
    ended,         \* the task is finalized
    waiter,        \* where each wait stands
    read           \* the last thing any caller was given

obVars == <<buffer, stream, ended, waiter, read>>

Total == Len(stream)
NoRead == [from |-> 0, to |-> 0, lost |-> 0, text |-> <<>>]

OBInit ==
    /\ buffer = [chunks |-> <<>>, dropped |-> 0, cursor |-> 0]
    /\ stream = <<>>
    /\ ended = FALSE
    /\ waiter = [w \in Waiters |-> [pc |-> "ready", start |-> 0, scanFrom |-> 0]]
    /\ read = NoRead

-----------------------------------------------------------------------------
(* The buffer. *)

Texts == UNION {[1 .. n -> Alphabet] : n \in 1 .. MaxChunk}

RECURSIVE Evicted(_, _)
Evicted(b, total) ==
    LET excess == total - b.dropped - Capacity
        first == Head(b.chunks)
        n == Len(first.text)
    IN  IF excess <= 0 THEN b
        ELSE IF n <= excess
        THEN Evicted([b EXCEPT !.chunks = Tail(b.chunks), !.dropped = b.dropped + n], total)
        ELSE [b EXCEPT !.chunks[1] = [text |-> SubSeq(first.text, excess + 1, n),
                                      offset |-> first.offset + excess],
                       !.dropped = b.dropped + excess]

\* sliceBuffer: what is kept of the characters from .. to - 1.
SliceBuffer(b, from, to) ==
    LET start == Max({from, b.dropped})
        part(c) == SubSeq(c.text, Max({0, start - c.offset}) + 1,
                                  Min({Len(c.text), to - c.offset}))
    IN  IF to <= start THEN <<>>
        ELSE FlattenSeq([i \in DOMAIN b.chunks |-> part(b.chunks[i])])

\* What a caller gets that consumes up to an offset, and the cursor after it.
Consume(b, to) ==
    LET from == Max({b.cursor, b.dropped})
    IN  [from |-> from, to |-> Max({from, to}), lost |-> Max({0, b.dropped - b.cursor}),
         text |-> SliceBuffer(b, from, to)]
Advanced(b, to) == [b EXCEPT !.cursor = Max({b.cursor, to})]

-----------------------------------------------------------------------------
(* Lines. *)

\* Where the lines of a text end: after a newline, or at its end when a line
\* need not be terminated.
LineEnds(text, terminated) ==
    {i \in DOMAIN text : text[i] = "n"}
        \cup (IF terminated \/ text = <<>> \/ Last(text) = "n" THEN {} ELSE {Len(text)})
LineTo(text, end) ==
    LET start == Max({0} \cup {i \in 1 .. end - 1 : text[i] = "n"})
    IN  SelectSeq(SubSeq(text, start + 1, end), LAMBDA c : c # "n")

\* scanLinesForMatch: the ends of the matching lines (the first one counts).
MatchEnds(text, terminated) == {e \in LineEnds(text, terminated) : LineTo(text, e) \in Pattern}

\* completeLineEnd
CompleteLineEnd(text) == Max({0} \cup {i \in DOMAIN text : text[i] = "n"})

-----------------------------------------------------------------------------
Sleeping == {w \in Waiters : waiter[w].pc = "waiting"}

\* The scan of pumpWaiters and of pumpWaitersFinal for one waiter: <<matched, end>>.
Scan(b, total, w, terminated) ==
    LET from == Max({waiter[w].scanFrom, b.dropped})
        region == SliceBuffer(b, from, total)
        ends == MatchEnds(region, terminated)
    IN  IF ends # {} THEN [matched |-> TRUE, at |-> from + Min(ends)]
        ELSE [matched |-> FALSE, at |-> from + CompleteLineEnd(region)]

\* Those matched consume up to the farthest match; the others move on, or, at
\* the end of the task, are told of it and read the rest.
Pump(b, total, final) ==
    LET scan == [w \in Sleeping |-> Scan(b, total, w, ~final)]
        hits == {w \in Sleeping : scan[w].matched}
        to == IF final /\ Sleeping \ hits # {} THEN total ELSE Max({0} \cup {scan[w].at : w \in hits})
    IN  /\ waiter' = [w \in Waiters |->
                          IF w \notin Sleeping THEN waiter[w]
                          ELSE IF w \in hits \/ final THEN [waiter[w] EXCEPT !.pc = "done"]
                          ELSE [waiter[w] EXCEPT !.scanFrom = scan[w].at]]
        /\ IF hits # {} \/ (final /\ Sleeping # {})
           THEN read' = Consume(b, to) /\ buffer' = Advanced(b, to)
           ELSE UNCHANGED read /\ buffer' = b

\* A chunk of output: appendOutput, then pumpWaiters.
AppendOutput ==
    /\ ~ended
    /\ \E text \in Texts :
          /\ Total + Len(text) <= MaxStream
          /\ stream' = stream \o text
          /\ LET b == [buffer EXCEPT !.chunks = Append(@, [text |-> text, offset |-> Total])]
             IN  Pump(Evicted(b, Total + Len(text)), Total + Len(text), FALSE)
    /\ UNCHANGED ended

\* finalize
End ==
    /\ ~ended
    /\ ended' = TRUE
    /\ Pump(buffer, Total, TRUE)
    /\ UNCHANGED stream

\* background_output: readUnread.
ReadUnreadOutput ==
    /\ read' = Consume(buffer, Total)
    /\ buffer' = Advanced(buffer, Total)
    /\ UNCHANGED <<stream, ended, waiter>>

\* background_wait: the unread output first, and then a waiter.
BeginWait(w) ==
    /\ waiter[w].pc = "ready"
    /\ LET from == Max({buffer.cursor, buffer.dropped})
           ends == MatchEnds(SliceBuffer(buffer, from, Total), ~ended)
           to == IF ends # {} THEN from + Min(ends) ELSE Total
       IN  IF ends # {} \/ ended
           THEN /\ read' = Consume(buffer, to)
                /\ buffer' = Advanced(buffer, to)
                /\ waiter' = [waiter EXCEPT ![w].pc = "done"]
           ELSE /\ waiter' = [waiter EXCEPT ![w] = [pc |-> "waiting", start |-> from,
                                                    scanFrom |-> from]]
                /\ UNCHANGED <<buffer, read>>
    /\ UNCHANGED <<stream, ended>>

\* A timeout reads what came during the wait; an abort reads nothing.
StopWait(w) ==
    /\ waiter[w].pc = "waiting"
    /\ waiter' = [waiter EXCEPT ![w].pc = "done"]
    /\ \/ read' = Consume(buffer, Total) /\ buffer' = Advanced(buffer, Total)
       \/ UNCHANGED <<read, buffer>>
    /\ UNCHANGED <<stream, ended>>

OBNext == AppendOutput \/ End \/ ReadUnreadOutput \/ \E w \in Waiters : BeginWait(w) \/ StopWait(w)

OBSpec == OBInit /\ [][OBNext]_obVars

-----------------------------------------------------------------------------
\* What a caller is given is what the command printed there, next to what every
\* earlier caller was given, and what it is told was lost is the gap: the last
\* Capacity characters are kept, no more and no fewer, however chunks fall.
OutputIsWhole ==
    /\ read.text = SubSeq(stream, read.from + 1, read.to)
    /\ buffer.dropped = Max({0, Total - Capacity})
    /\ SliceBuffer(buffer, 0, Total) = SubSeq(stream, buffer.dropped + 1, Total)
    /\ buffer.cursor <= Total

\* Each read starts where the last one stopped, but for what it says was lost.
ReadsAreContiguous ==
    [][read' # read => /\ read'.from - read'.lost = buffer.cursor
                       /\ read'.to <= buffer'.cursor]_obVars

\* A wait never sleeps through a line: no complete line kept in the buffer and
\* begun since the wait did matches its pattern, however the line was split.
NoSleptLine ==
    \A w \in Sleeping :
        LET from == Max({waiter[w].start, buffer.dropped})
            kept == SubSeq(stream, from + 1, Total)
        IN  \A e \in MatchEnds(kept, TRUE) :
                \* a line whose head was evicted is not the line that was printed
                buffer.dropped > waiter[w].start /\ ~\E i \in 1 .. e - 1 : kept[i] = "n"

\* Nothing the command printed is told wrongly or slept through.
OutputIsTold == OutputIsWhole /\ NoSleptLine
=============================================================================
