------------------------------- MODULE Lzip -------------------------------
(***************************************************************************)
(* LzipReader of decompress.rs: the one decompressor written by hand.  It  *)
(* drives a bare LZMA decoder member by member out of a buffer it refills  *)
(* itself, so that nothing between two members is lost.                    *)
(*                                                                         *)
(* The input is a sequence of units.  A member is HeaderLen head units,    *)
(* body units and TrailerLen tail units.  A body unit decodes to `yields`  *)
(* copies of `value`; the one with the end-of-stream marker has last set.  *)
(* A head unit with ok FALSE is a wrong magic, version or dictionary size; *)
(* a body unit with ok FALSE is one the decoder rejects, or, with stuck set, *)
(* one it neither takes nor rejects.  A tail unit carries the member's     *)
(* declared size, and its checksum as the value the content should have.   *)
(***************************************************************************)
EXTENDS Naturals, Sequences, SequencesExt

CONSTANTS
  Inputs,       \* the files
  HeaderLen,    \* LZIP_HEADER_LEN
  TrailerLen,   \* LZIP_TRAILER_LEN
  Buf,          \* LZIP_BUF
  OutSizes      \* the lengths of the slices callers read into

Unit == [part : {"head", "body", "tail"}, ok : BOOLEAN, stuck : BOOLEAN, yields : Nat,
         value : Nat, last : BOOLEAN, size : Nat, sum : Nat]

ASSUME LzipAssumption ==
  /\ Inputs \subseteq Seq(Unit)
  /\ HeaderLen \in 1..Buf /\ TrailerLen \in Nat \ {0} /\ Buf \in Nat
  /\ OutSizes \subseteq Nat

VARIABLES
  input,      \* the file
  taken,      \* units consumed so far
  pos, cap,   \* buf[pos..cap] is read and not yet consumed
  eof,        \* the file has answered 0
  pending,    \* the synthesized header has not reached the decoder yet
  state,      \* LzipState
  owed,       \* what the decoder has decoded and not yet handed out
  ended,      \* the decoder has met the end-of-stream marker
  total,      \* stream.total_out(): what the decoder has handed out
  memberOut,  \* what the member decoded to, noted at its end
  trailer,    \* the tail units collected
  call,       \* the length of the slice of the read in progress, or 0
  delivered,  \* everything read has returned
  ending      \* the last thing said: "open", "eof" or "error"

decoder == <<owed, ended, total>>
buffer == <<taken, pos, cap, eof>>
vars == <<input, buffer, pending, state, decoder, memberOut, trailer, call,
          delivered, ending>>

Init ==
  /\ input \in Inputs
  /\ taken = 0 /\ pos = 0 /\ cap = 0 /\ eof = FALSE
  /\ pending = FALSE
  /\ state = "Header"
  /\ owed = <<>> /\ ended = FALSE /\ total = 0
  /\ memberOut = 0
  /\ trailer = <<>>
  /\ call = 0
  /\ delivered = <<>>
  /\ ending = "open"

----------------------------------------------------------------------------
\* What buf[pos..cap] may be after fill_at_least(n).  The file answers with as
\* many units as it likes, and with none only at its end.
Unread == Len(input) - taken - (cap - pos)

Untouched == [pos |-> pos, cap |-> cap, eof |-> eof]

\* Slip: one read of the file is taken to be enough.
FilledOnce(n) ==
  LET have == cap - pos
  IN IF have >= n THEN {Untouched}
     ELSE {[pos |-> 0, cap |-> have + k, eof |-> eof \/ k = 0] :
             k \in {k \in 0 .. Buf - have : k <= Unread /\ (k = 0 => Unread = 0)}}

Filled(n) ==
  LET have == cap - pos
  IN IF have >= n THEN {Untouched}
     ELSE IF have + Unread < n
     THEN {[pos |-> 0, cap |-> have + Unread, eof |-> TRUE]}
     ELSE {[pos |-> 0, cap |-> have + k, eof |-> eof] :
             k \in {k \in n - have .. Buf - have : k <= Unread}}

\* fill_at_least reads the file, and the file fails.
CanFailToFill(n) == cap - pos < n /\ ~eof

\* f is what the buffer was filled to; n units of it are consumed.
Consume(f, n) ==
  /\ pos' = f.pos + n /\ cap' = f.cap /\ eof' = f.eof
  /\ taken' = taken + n

\* The units a filled buffer holds.
Held(f) == SubSeq(input, taken + 1, taken + f.cap - f.pos)

----------------------------------------------------------------------------
\* How a call of read ends, or does not yet.
ReturnData(out) ==
  /\ delivered' = delivered \o out
  /\ call' = 0
  /\ UNCHANGED ending

ReturnEnd ==
  /\ state' = "Done"
  /\ ending' = "eof"
  /\ call' = 0
  /\ UNCHANGED delivered

\* Slip: the state is left where the error found it.
ReturnErrorUnlatched ==
  /\ ending' = "error"
  /\ call' = 0
  /\ UNCHANGED <<input, pending, state, decoder, memberOut, trailer, delivered>>

\* read latches every error of the member loop.
ReturnError ==
  /\ state' = "Failed"
  /\ ending' = "error"
  /\ call' = 0
  /\ UNCHANGED <<input, pending, decoder, memberOut, trailer, delivered>>

KeepGoing == UNCHANGED <<call, delivered, ending>>

\* read(out): an empty slice and the two terminal states are answered at once.
Read(n) ==
  /\ call = 0
  /\ CASE n = 0 -> UNCHANGED <<call, ending>>
       [] n > 0 /\ state = "Done" -> ending' = "eof" /\ UNCHANGED call
       [] n > 0 /\ state = "Failed" -> ending' = "error" /\ UNCHANGED call
       [] OTHER -> call' = n /\ UNCHANGED ending
  /\ UNCHANGED <<input, buffer, pending, state, decoder, memberOut, trailer, delivered>>

\* The question mark after fill_at_least, wherever the loop calls it.
SourceFails ==
  /\ call > 0
  /\ \/ state = "Header" /\ CanFailToFill(HeaderLen)
     \/ state = "Trailer" /\ CanFailToFill(1)
     \/ state = "Body" /\ ~pending /\ pos = cap /\ CanFailToFill(1)
  /\ ReturnError
  /\ UNCHANGED buffer

----------------------------------------------------------------------------
\* start_member.  A member's header is checked before anything is consumed.
SoundHead(f) ==
  /\ Len(Held(f)) >= HeaderLen
  /\ \A k \in 1..HeaderLen : Held(f)[k].part = "head" /\ Held(f)[k].ok

\* Slip: what is too short for a header is taken for padding.
EndOnShortHead ==
  /\ call > 0 /\ state = "Header"
  /\ \E f \in Filled(HeaderLen) : Len(Held(f)) < HeaderLen /\ Consume(f, 0)
  /\ ReturnEnd
  /\ UNCHANGED <<input, pending, decoder, memberOut, trailer>>

\* The file ends where a member ends.
EndCleanly ==
  /\ call > 0 /\ state = "Header"
  /\ \E f \in Filled(HeaderLen) : Held(f) = <<>> /\ Consume(f, 0)
  /\ ReturnEnd
  /\ UNCHANGED <<input, pending, decoder, memberOut, trailer>>

RefuseHead ==
  /\ call > 0 /\ state = "Header"
  /\ \E f \in Filled(HeaderLen) :
       Held(f) # <<>> /\ ~SoundHead(f) /\ Consume(f, 0)
  /\ ReturnError

StartMember ==
  /\ call > 0 /\ state = "Header"
  /\ \E f \in Filled(HeaderLen) : SoundHead(f) /\ Consume(f, HeaderLen)
  /\ pending' = TRUE
  /\ state' = "Body"
  /\ owed' = <<>> /\ ended' = FALSE /\ total' = 0
  /\ trailer' = <<>>
  /\ KeepGoing
  /\ UNCHANGED <<input, memberOut>>

\* The synthesized header goes to the decoder ahead of the buffer.
FeedPending ==
  /\ call > 0 /\ state = "Body" /\ pending
  /\ pending' = FALSE
  /\ KeepGoing
  /\ UNCHANGED <<input, buffer, state, decoder, memberOut, trailer>>

----------------------------------------------------------------------------
(***************************************************************************)
(* Stream::process of liblzma, from how the reader uses it: given units and *)
(* room in the slice it takes units up to the end marker at most, takes no *)
(* more while it owes output, and comes back when the slice is full, the   *)
(* units are spent, the member has ended or it is stuck.  The bare LZMA format has no   *)
(* checksum of its own: a changed value is decoded like any other.         *)
(***************************************************************************)
Copies(u) == [k \in 1..u.yields |-> u.value]

\* How many of the units belong to the member and can be decoded.
Decodable(units) ==
  CHOOSE n \in 0..Len(units) :
    /\ \A j \in 1..n : /\ units[j].ok /\ units[j].part = "body"
                       /\ j < n => ~units[j].last
    /\ \/ n = Len(units)
       \/ n > 0 /\ units[n].last
       \/ ~units[n + 1].ok \/ units[n + 1].part # "body"

\* What the decoder has to hand out when it has taken n units.
Decoded(units, n) == owed \o FlattenSeq([j \in 1..n |-> Copies(units[j])])

Marked(units, n) == ended \/ (n > 0 /\ units[n].last)

\* The answers the decoder may give: what it took, wrote and still owes.
Decode(units, room) ==
  LET most == IF ended THEN 0 ELSE Decodable(units)
      Answer(n) == LET all == Decoded(units, n)
                       k == IF Len(all) < room THEN Len(all) ELSE room
                   IN [took |-> n, out |-> SubSeq(all, 1, k),
                       owed |-> SubSeq(all, k + 1, Len(all)), ended |-> Marked(units, n)]
  IN {Answer(n) : n \in {n \in 0..most :
        /\ n > 0 => Len(Decoded(units, n - 1)) <= room
        /\ \/ Len(Decoded(units, n)) >= room \/ Marked(units, n) \/ n = Len(units)
           \/ n = most /\ units[n + 1].stuck}}

\* The decoder meets a unit it cannot decode before the slice is full.
Rejects(units, room) ==
  LET n == Decodable(units)
  IN /\ n < Len(units) /\ ~Marked(units, n) /\ Len(Decoded(units, n)) <= room
     /\ ~units[n + 1].stuck

----------------------------------------------------------------------------
\* The body's turn refills the buffer only when it is spent.
BodyFill == IF pos = cap THEN Filled(1) ELSE {Untouched}

\* process fails, or the file ends before the marker.
DecodeFails ==
  /\ call > 0 /\ state = "Body" /\ ~pending
  /\ \E f \in BodyFill :
       /\ Held(f) = <<>> \/ Rejects(Held(f), call)
       /\ Consume(f, 0)
  /\ ReturnError

Over(d) == d.ended /\ d.owed = <<>>

\* Nothing taken and nothing written, in the middle of a member.
Stalled(d) == d.took = 0 /\ d.out = <<>> /\ ~Over(d)

\* Slip: the loop tries again.
SpinOnStall ==
  /\ call > 0 /\ state = "Body" /\ ~pending
  /\ \E f \in BodyFill :
       /\ Held(f) # <<>> /\ \E d \in Decode(Held(f), call) : Stalled(d)
       /\ Consume(f, 0)
  /\ KeepGoing
  /\ UNCHANGED <<input, pending, state, decoder, memberOut, trailer>>

\* The loop's guard: it bails instead of spinning.
DecoderStalls ==
  /\ call > 0 /\ state = "Body" /\ ~pending
  /\ \E f \in BodyFill :
       /\ Held(f) # <<>> /\ \E d \in Decode(Held(f), call) : Stalled(d)
       /\ Consume(f, 0)
  /\ ReturnError

\* One call of process that takes a unit, writes or ends the member.
DecodeBody ==
  /\ call > 0 /\ state = "Body" /\ ~pending
  /\ \E f \in BodyFill : \E d \in Decode(Held(f), call) :
       LET over == Over(d)
       IN /\ Held(f) # <<>> /\ ~Stalled(d)
          /\ Consume(f, d.took)
          /\ owed' = d.owed /\ ended' = d.ended
          /\ total' = total + Len(d.out)
          /\ state' = IF over THEN "Trailer" ELSE "Body"
          /\ memberOut' = IF over THEN total' ELSE memberOut
          /\ IF d.out = <<>> THEN KeepGoing ELSE ReturnData(d.out)
  /\ UNCHANGED <<input, pending, trailer>>

----------------------------------------------------------------------------
\* advance_trailer: what is there of the trailer is collected, and when it is
\* whole its size field is compared.
TrailerPart(f) ==
  LET left == TrailerLen - Len(trailer)
  IN SubSeq(Held(f), 1, IF left < Len(Held(f)) THEN left ELSE Len(Held(f)))

\* Slip: a file that ends in the trailer is read again.
SpinAtEnd ==
  /\ call > 0 /\ state = "Trailer"
  /\ \E f \in Filled(1) :
       LET t == trailer \o TrailerPart(f)
       IN /\ Consume(f, Len(TrailerPart(f)))
          /\ \/ Held(f) = <<>> /\ KeepGoing
                /\ UNCHANGED <<input, pending, state, decoder, memberOut, trailer>>
             \/ Len(t) = TrailerLen /\ t[1].size # memberOut /\ ReturnError

RefuseTrailer ==
  /\ call > 0 /\ state = "Trailer"
  /\ \E f \in Filled(1) :
       LET t == trailer \o TrailerPart(f)
       IN /\ Held(f) = <<>> \/ (Len(t) = TrailerLen /\ t[1].size # memberOut)
          /\ Consume(f, Len(TrailerPart(f)))
  /\ ReturnError

AdvanceTrailer ==
  /\ call > 0 /\ state = "Trailer"
  /\ \E f \in Filled(1) :
       LET t == trailer \o TrailerPart(f)
       IN /\ Held(f) # <<>> /\ (Len(t) = TrailerLen => t[1].size = memberOut)
          /\ Consume(f, Len(TrailerPart(f)))
          /\ trailer' = t
          /\ state' = IF Len(t) = TrailerLen THEN "Header" ELSE "Trailer"
  /\ KeepGoing
  /\ UNCHANGED <<input, pending, decoder, memberOut>>

----------------------------------------------------------------------------
Step == \/ EndCleanly \/ RefuseHead \/ StartMember \/ FeedPending
        \/ DecodeFails \/ DecoderStalls \/ DecodeBody
        \/ RefuseTrailer \/ AdvanceTrailer

Next == (\E n \in OutSizes : Read(n)) \/ SourceFails \/ Step

Spec == Init /\ [][Next]_vars

\* A call of read runs on the caller's thread until it returns; that the file
\* fails is not counted on.
FairSpec == Spec /\ WF_vars(Step)

----------------------------------------------------------------------------
(***************************************************************************)
(* The lzip format, as a reference to compare with: the part a file calls  *)
(* for next after some of its units, the length and checksum of the member *)
(* so far and what its trailer declared, and what was held up to the first *)
(* unit that is not what the format calls for.                             *)
(***************************************************************************)
Start == [part |-> "head", nth |-> 1, held |-> <<>>, member |-> <<>>,
          declared |-> 0, sum |-> 0, sound |-> TRUE, spoiled |-> FALSE]

Follow(s, u) ==
  LET closes == s.part = "tail" /\ s.nth = TrailerLen
      size == IF u.part = "tail" /\ s.nth = 1 THEN u.size ELSE s.declared
      sum == IF u.part = "tail" /\ s.nth = 1 THEN u.sum ELSE s.sum
      fits == s.sound /\ u.ok /\ u.part = s.part /\ (closes => size = Len(s.member))
      Then(p, n) == [s EXCEPT !.part = p, !.nth = n, !.declared = size, !.sum = sum]
  IN CASE ~fits -> [s EXCEPT !.sound = FALSE]
       [] fits /\ closes ->
            [Then("head", 1) EXCEPT !.member = <<>>,
               !.spoiled = @ \/ sum # FoldLeft(LAMBDA x, y : x + y, 0, s.member)]
       [] fits /\ s.part = "body" ->
            [Then(IF u.last THEN "tail" ELSE "body", 1)
               EXCEPT !.member = @ \o Copies(u), !.held = @ \o Copies(u)]
       [] fits /\ s.part = "head" /\ s.nth = HeaderLen -> Then("body", 1)
       [] OTHER -> Then(s.part, s.nth + 1)

Parsed == [f \in Inputs |-> FoldLeft(Follow, Start, f)]

\* The file is whole members and nothing else.
WellFormed == Parsed[input].sound /\ Parsed[input].part = "head" /\ Parsed[input].nth = 1

\* What the file holds up to the first thing that is not what it should be.
Content == Parsed[input].held

----------------------------------------------------------------------------
\* A file that lzip wrote, however many members it has and however the file
\* and the callers cut it, is never refused: only reading the file itself can
\* make the reader fail (start_member, advance_trailer).
WellFormedIsRead ==
  [][WellFormed /\ state' = "Failed" => state = "Failed" \/ SourceFails]_vars

Promise == INSTANCE ByteStream WITH content <- Content, whole <- WellFormed

\* The reader delivers exactly what the members hold, in order, tells the end
\* only of a whole file after all of it, and repeats an error for ever: no
\* member is dropped and no truncated file ends quietly (LzipReader::read).
ReadsTheFile == Promise!Spec

\* A call of read returns: the member loop never spins (read_member_loop).
CallsReturn == call > 0 ~> call = 0

\* What a doc says of the checksum: a member whose content is not what its
\* trailer sums up does not end in a clean end of file (decompress.rs:247).
SpoiledIsCaught == ending = "eof" => ~Parsed[input].spoiled
=============================================================================
