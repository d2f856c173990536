---------------------------- MODULE CappedOutput ----------------------------
(****************************************************************************)
(* The output of a command as the runner keeps it (capped, in               *)
(* src/runner/runner.go) and as natsumi reads it (shown, in                 *)
(* src/src/server/workspace-shell.ts): the head, the tail, and how many     *)
(* bytes between them were left out.                                        *)
(*                                                                          *)
(* A byte is the pair of the character it belongs to and its place in that  *)
(* character.  The command writes in pieces that may cut a character.       *)
(****************************************************************************)
EXTENDS Naturals, FiniteSets, Sequences, SequencesExt

CONSTANTS
  Widths,       \* the widths a character may have, in bytes
  UTFMax,       \* the widest a character is
  MaxOutput,    \* max: the bytes kept
  MaxShown,     \* SHELL_OUTPUT_CHARS: the characters shown
  MaxPiece,     \* bound: the bytes of one write
  MaxCharacters \* bound: the characters of the output

ASSUME CappedAssumption ==
  /\ MaxOutput \in Nat /\ MaxShown \in Nat /\ MaxPiece \in Nat /\ MaxCharacters \in Nat
  /\ UTFMax \in Nat \ {0} /\ Widths \subseteq 1..UTFMax /\ 2 * UTFMax <= MaxOutput

VARIABLES
  text,         \* the widths of the characters the command writes
  total,        \* the bytes of it written so far
  head, tail,   \* what is kept
  headOnly      \* a declared tool's output

cappedVars == <<text, total, head, tail, headOnly>>

\* The bytes of characters of these widths.
Bytes(widths) == FlattenSeq([i \in DOMAIN widths |-> [k \in 1..widths[i] |-> [char |-> i, place |-> k, of |-> widths[i]]]])
Written == SubSeq(Bytes(text), 1, total)

HeadRoom == IF headOnly THEN MaxOutput ELSE MaxOutput \div 2
TailRoom == IF headOnly THEN 0 ELSE MaxOutput - MaxOutput \div 2
Smaller(a, b) == IF a < b THEN a ELSE b
Latest(s, n) == SubSeq(s, Len(s) - Smaller(n, Len(s)) + 1, Len(s))

\* The tail holds up to twice its room between trims.
Trimmed(s) == IF Len(s) > 2 * TailRoom THEN Latest(s, TailRoom) ELSE s

\* Write(): the head first, the rest to the tail.
CappedWrite(n) ==
  LET piece == SubSeq(Bytes(text), total + 1, total + n)
      taken == Smaller(HeadRoom - Len(head), n)
      rest  == SubSeq(piece, taken + 1, n) IN
  /\ n <= Len(Bytes(text)) - total
  /\ total' = total + n
  /\ head' = head \o SubSeq(piece, 1, taken)
  /\ tail' = IF TailRoom > 0 /\ rest # <<>> THEN Trimmed(tail \o rest) ELSE tail
  /\ UNCHANGED <<text, headOnly>>

-----------------------------------------------------------------------------
(* snapshot().                                                              *)

\* Mutant: a head that ends in the middle of a character is kept.
WholeHeadAsItIs(b) == b

\* wholeHead(): without the character its end cuts.
WholeHead(b) ==
  LET last == SelectLastInSeq(b, LAMBDA byte : byte.place = 1)
  IN IF last > 0 /\ Len(b) - last < UTFMax /\ Len(b) - last + 1 < b[last].of THEN SubSeq(b, 1, last - 1) ELSE b

\* wholeTail(): without the character its start cuts.
WholeTail(b) ==
  LET begins == SelectInSeq(SubSeq(b, 1, Smaller(UTFMax, Len(b))), LAMBDA byte : byte.place = 1)
  IN IF begins > 0 THEN SubSeq(b, begins, Len(b)) ELSE b

Snapshot ==
  LET last    == Latest(tail, TailRoom)
      omitted == total - Len(head) - Len(last)
  IN CASE omitted = 0 -> [text |-> head \o last, tail |-> <<>>, omitted |-> 0]
       [] omitted > 0 /\ headOnly -> [text |-> head, tail |-> <<>>, omitted |-> omitted]
       [] OTHER -> [text |-> WholeHead(head), tail |-> WholeTail(last),
                    omitted |-> omitted + Len(head) - Len(WholeHead(head)) + Len(last) - Len(WholeTail(last))]

-----------------------------------------------------------------------------
(* What is shown of it: characters, not bytes.                              *)

\* The characters of valid UTF-8, by their widths: those whose last byte is in b.
Ended(b) == {byte.char : byte \in {c \in Range(b) : c.place = c.of}}
Characters(b) == [i \in 1..Cardinality(Ended(b)) |-> text[Min(Ended(b)) + i - 1]]
Size(characters) == Len(Bytes(characters))

LeftOut(characters) == Size(characters)

\* shown(): the whole, or the first and the last half with the bytes left out by both counted together.
Shown(kept) ==
  LET front == Characters(kept.text)
      back  == Characters(kept.tail)
      half  == MaxShown \div 2
      rest  == MaxShown - half IN
  CASE kept.omitted = 0 /\ back = <<>> /\ Len(front) <= MaxShown -> [first |-> front, last |-> <<>>, dropped |-> 0]
    [] kept.omitted = 0 /\ back = <<>> /\ Len(front) > MaxShown ->
         [first |-> SubSeq(front, 1, half), last |-> Latest(front, rest),
          dropped |-> LeftOut(SubSeq(front, half + 1, Len(front) - rest))]
    [] OTHER ->
         [first |-> SubSeq(front, 1, Smaller(half, Len(front))), last |-> Latest(back, rest),
          dropped |-> kept.omitted + LeftOut(SubSeq(front, half + 1, Len(front)))
                        + LeftOut(SubSeq(back, 1, Len(back) - Smaller(rest, Len(back))))]

-----------------------------------------------------------------------------
CappedInit ==
  /\ text \in UNION {[1..n -> Widths] : n \in 0..MaxCharacters} /\ headOnly \in BOOLEAN
  /\ total = 0 /\ head = <<>> /\ tail = <<>>

CappedNext == \E n \in 1..MaxPiece : CappedWrite(n)

CappedSpec == CappedInit /\ [][CappedNext]_cappedVars

-----------------------------------------------------------------------------
(* Properties.                                                              *)

\* No more than the cap is kept of an output, and between two trims never more than its head and twice its tail.
KeptWithin == Len(head) <= HeadRoom /\ Len(tail) <= 2 * TailRoom /\ Len(Snapshot.text) + Len(Snapshot.tail) <= MaxOutput

\* The cap is used: what is kept of a longer output falls short of it by the two characters cut at most.
KeptIsEnough == (Snapshot.omitted > 0 /\ ~headOnly) => Len(Snapshot.text) + Len(Snapshot.tail) >= MaxOutput - 2 * (UTFMax - 1)

\* What is kept is the beginning and the end of what was written: nothing is lost or doubled where they meet.
KeptIsEnds == IsPrefix(Snapshot.text, Written) /\ IsSuffix(Snapshot.tail, Written)

\* What is kept and what is said to be left out are all that was written.
OmittedIsExact == Len(Snapshot.text) + Len(Snapshot.tail) + Snapshot.omitted = total

\* No character is cut where bytes were left out: her output has no broken characters the command did not write.
NothingIsCut ==
  (Snapshot.omitted > 0 /\ ~headOnly) =>
    /\ Snapshot.text # <<>> => Last(Snapshot.text).place = Last(Snapshot.text).of
    /\ Snapshot.tail # <<>> => Head(Snapshot.tail).place = 1

\* The bytes she is told were left out are those she is not shown, cut by the runner and by the server together.
ShownIsExact ==
  (total = Len(Bytes(text)) /\ ~headOnly) =>
    LET s == Shown(Snapshot) IN Size(s.first) + Size(s.last) + s.dropped = total /\ Len(s.first) + Len(s.last) <= MaxShown

\* A capped output is the two ends of what was written, cut between characters, with an exact count of the rest.
CappedSafety == KeptWithin /\ KeptIsEnough /\ KeptIsEnds /\ OmittedIsExact /\ NothingIsCut /\ ShownIsExact
=============================================================================
