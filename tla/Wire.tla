-------------------------------- MODULE Wire --------------------------------
(***************************************************************************)
(* The header of a frame (zigbee/wire.py): after the command byte, the     *)
(* request id and the frame type share a little-endian 16-bit word.  Ids   *)
(* are those that _next_id hands out, with 0 for notifications.            *)
(***************************************************************************)
EXTENDS Integers, TLAPS

MaxRequestId == 16383   \* 0x3FFF

\* FrameType
REQUEST == 0
RESPONSE == 1
EVENT == 2
NOTIFICATION == 3

FrameTypes == REQUEST .. NOTIFICATION
RequestIds == 0 .. MaxRequestId
Words == 0 .. 65535
Byte == 0 .. 255

\* request_id << 2 | frame_type, its low byte and its high byte
Word(id, type) == 4 * id + type
Low(word) == word % 256
High(word) == word \div 256

\* Header.serialize, past the command
Header(id, type) == <<Low(Word(id, type)), High(Word(id, type))>>

\* Header.deserialize
WordOf(header) == header[1] + 256 * header[2]
FrameTypeOf(header) == WordOf(header) % 4
RequestIdOf(header) == WordOf(header) \div 4

-----------------------------------------------------------------------------

\* A number between the bounds of a byte
LEMMA IsByte ==
  ASSUME NEW x \in Int, 0 <= x, x <= 255
  PROVE  x \in Byte
BY SMT DEF Byte

\* A word has two bytes, ...
LEMMA LowIsByte ==
  ASSUME NEW w \in Words
  PROVE  Low(w) \in Byte
BY SMT DEF Low, Words, Byte

LEMMA HighIsByte ==
  ASSUME NEW w \in Words
  PROVE  High(w) \in Byte
<1>1. High(w) \in Int
  BY SMT DEF High, Words
<1>2. 0 <= High(w)
  BY SMT DEF High, Words
<1>3. High(w) <= 255
  BY SMT DEF High, Words
<1> QED BY <1>1, <1>2, <1>3, IsByte

\* ... of which it is made up.
LEMMA TwoBytes ==
  ASSUME NEW w \in Words
  PROVE  Low(w) + 256 * High(w) = w
BY SMT DEF Low, High, Words

\* An id and a type fit a word, ...
LEMMA WordFits ==
  ASSUME NEW id \in RequestIds, NEW type \in FrameTypes
  PROVE  Word(id, type) \in Words
BY SMT DEF Word, Words, RequestIds, FrameTypes, MaxRequestId, REQUEST, NOTIFICATION

\* ... and are told apart in it.
LEMMA TypeAndId ==
  ASSUME NEW id \in RequestIds, NEW type \in FrameTypes
  PROVE  /\ Word(id, type) % 4 = type
         /\ Word(id, type) \div 4 = id
<1>1. Word(id, type) % 4 = type
  BY SMT DEF Word, RequestIds, FrameTypes, MaxRequestId, REQUEST, NOTIFICATION
<1>2. Word(id, type) \div 4 = id
  BY SMT DEF Word, RequestIds, FrameTypes, MaxRequestId, REQUEST, NOTIFICATION
<1> QED BY <1>1, <1>2

\* The header of a frame with any id that _next_id may hand out fits its two bytes,
\* and the receiver reads the id and the type the sender wrote.
\* (Header.serialize 130-132, Header.deserialize 134-145.)
THEOREM HeaderRoundTrip ==
  \A id \in RequestIds, type \in FrameTypes :
    /\ Header(id, type) \in Byte \X Byte
    /\ RequestIdOf(Header(id, type)) = id
    /\ FrameTypeOf(Header(id, type)) = type
<1> SUFFICES ASSUME NEW id \in RequestIds, NEW type \in FrameTypes
             PROVE  /\ Header(id, type) \in Byte \X Byte
                    /\ RequestIdOf(Header(id, type)) = id
                    /\ FrameTypeOf(Header(id, type)) = type
  OBVIOUS
<1>1. Header(id, type) \in Byte \X Byte
  BY WordFits, LowIsByte, HighIsByte DEF Header
<1>2. WordOf(Header(id, type)) = Word(id, type)
  BY WordFits, TwoBytes DEF WordOf, Header
<1>3. RequestIdOf(Header(id, type)) = id /\ FrameTypeOf(Header(id, type)) = type
  BY <1>2, TypeAndId DEF RequestIdOf, FrameTypeOf
<1> QED BY <1>1, <1>3
=============================================================================
