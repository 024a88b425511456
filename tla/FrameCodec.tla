----------------------------- MODULE FrameCodec -----------------------------
(***************************************************************************)
(* How a read loop turns a stream of bytes into messages.                  *)
(*                                                                         *)
(* Frames end in a newline.  The bytes arrive in chunks cut anywhere; the  *)
(* loop appends a chunk to buf and runs the generator decode_frames, which *)
(* works on a buffer of its own, remaining, and hands back what it has     *)
(* left only together with a message.  Both read loops, the server's and   *)
(* the client's, are this one.                                             *)
(*                                                                         *)
(* A byte is a letter, a blank, the newline, or Bad, which makes the line  *)
(* it is in fail to parse; a line that fails ends the loop.                *)
(***************************************************************************)
EXTENDS Naturals, Sequences, SequencesExt, FiniteSets

CONSTANTS
    Letters,
    Blank, Newline, Bad,
    MaxLength,     \* bounds the stream
    ReadSize       \* the most one read returns (4096 in the code)

ASSUME CodecAssumption ==
    /\ Cardinality({Blank, Newline, Bad}) = 3
    /\ Letters \cap {Blank, Newline, Bad} = {}
    /\ MaxLength \in Nat /\ ReadSize \in Nat \ {0}

Bytes == Letters \cup {Blank, Newline, Bad}

VARIABLES
    stream,      \* all the peer ever writes
    position,    \* how much of it has been read
    buf,         \* the loop's buffer, a sequence of Bytes
    remaining,   \* the generator's buffer, another
    state,       \* "reading", "decoding" or "ended"
    messages     \* lines handed to _dispatch, in order

vars == <<stream, position, buf, remaining, state, messages>>

Init ==
    /\ stream \in UNION {[1..n -> Bytes] : n \in 0..MaxLength}
    /\ position = 0
    /\ buf = <<>> /\ remaining = <<>>
    /\ state = "reading"
    /\ messages = <<>>

IsBlank(line) == Range(line) \subseteq {Blank}

\* Mutant: what the last chunk left over is lost.
KeepNothing(left, chunk) == chunk

\* buf += data
Keep(left, chunk) == left \o chunk

\* reader.read returns what has arrived, at most ReadSize bytes, or b"" at the
\* end of the stream, which ends the loop.
Read ==
    /\ state = "reading"
    /\ \E n \in 1..ReadSize :
        /\ position + n <= Len(stream)
        /\ position' = position + n
        /\ buf' = Keep(buf, SubSeq(stream, position + 1, position + n))
    /\ remaining' = buf'
    /\ state' = "decoding"
    /\ UNCHANGED <<stream, messages>>

EndOfStream ==
    /\ state = "reading" /\ position = Len(stream)
    /\ state' = "ended"
    /\ UNCHANGED <<stream, position, buf, remaining, messages>>

FirstNewline == CHOOSE i \in 1..Len(remaining) :
    remaining[i] = Newline /\ \A j \in 1..i - 1 : remaining[j] # Newline

Line == SubSeq(remaining, 1, FirstNewline - 1)
Rest == SubSeq(remaining, FirstNewline + 1, Len(remaining))

\* Mutant: the loop goes on with the buffer it gave to the generator.
HandedBackUnused(rest) == buf

\* for msg, buf in ...: the loop takes the rest over with every message.
HandedBack(rest) == rest

\* One turn of the generator: a blank line is skipped, and buf keeps it.
SplitFrame ==
    /\ state = "decoding" /\ Newline \in Range(remaining)
    /\ \/ /\ IsBlank(Line)
          /\ remaining' = Rest
          /\ UNCHANGED <<buf, messages, state>>
       \/ /\ ~IsBlank(Line) /\ Bad \notin Range(Line)
          /\ messages' = Append(messages, Line)
          /\ remaining' = Rest
          /\ buf' = HandedBack(Rest)
          /\ UNCHANGED state
       \/ /\ Bad \in Range(Line)
          /\ state' = "ended"
          /\ UNCHANGED <<remaining, buf, messages>>
    /\ UNCHANGED <<stream, position>>

NoFrameLeft ==
    /\ state = "decoding" /\ Newline \notin Range(remaining)
    /\ state' = "reading"
    /\ UNCHANGED <<stream, position, buf, remaining, messages>>

Next == Read \/ EndOfStream \/ SplitFrame \/ NoFrameLeft

Spec == Init /\ [][Next]_vars

\* The peer's bytes arrive, and the loop is an asyncio task that runs when they do.
FairSpec == Spec /\ WF_vars(Next)
-----------------------------------------------------------------------------
(***************************************************************************)
(* What the stream means, without buffers: the lines between its newlines, *)
(* blank ones left out, up to the first that does not parse.               *)
(***************************************************************************)
\* The line that ends at position e of s, after the newline before it.
LineBefore(s, e) ==
    SubSeq(s, Max({0} \cup {i \in 1..e - 1 : s[i] = Newline}) + 1, e - 1)

\* Where the lines end that are not blank, in the first n bytes of s.
FrameEnds(s, n) == {e \in 1..n : s[e] = Newline /\ ~IsBlank(LineBefore(s, e))}

\* The one member of a set of numbers that has k members up to it.
Ranked(S, k) == {i \in S : Cardinality({j \in S : j <= i}) = k}
Nth(S, k) == CHOOSE i \in Ranked(S, k) : TRUE

LinesBefore(s, ends) == [k \in 1..Cardinality(ends) |-> LineBefore(s, Nth(ends, k))]

Frames(s, n) == LinesBefore(s, FrameEnds(s, n))

Parsed(fs) ==
    LET bad == {i \in 1..Len(fs) : Bad \in Range(fs[i])}
    IN  IF bad = {} THEN fs ELSE SubSeq(fs, 1, Min(bad) - 1)

\* Whenever the loop reads again, it has dispatched just the messages of the
\* bytes it has read, however they were cut; and it has stopped at a bad line.
ChunkingInvisible ==
    /\ state = "reading" => messages = Frames(stream, position)
    /\ state = "ended" => messages = Parsed(Frames(stream, position))

\* All messages of the stream are dispatched in the end.
AllDispatched == <>[](messages = Parsed(Frames(stream, Len(stream))))
=============================================================================
