------------------------------ MODULE BACnetCodec ------------------------------
(***************************************************************************)
(* The application-layer tag codec (bacnet/bacdcode.c, bacnet/bacapp.c)   *)
(* the object handlers call.  Its implementation is not part of the source *)
(* tree under src/, so these operators are written from spec section 4.1:  *)
(* the tag byte layout, extended tag numbers and lengths, minimal-width    *)
(* big-endian integers, and the checks a decoder must make.                *)
(*                                                                         *)
(* An encoding is a sequence of octets (0 .. 255).  A character string or  *)
(* a BACnetColorCommand payload is kept as one abstract element after its  *)
(* charset octet / tag: no property here is about its characters.         *)
(***************************************************************************)
LOCAL INSTANCE Integers
LOCAL INSTANCE Sequences

(* Application tag numbers (BACNET_APPLICATION_TAG). *)
TAG_BOOLEAN == 1
TAG_UNSIGNED_INT == 2
TAG_CHARACTER_STRING == 7
TAG_ENUMERATED == 9
TAG_OBJECT_ID == 12

(* v as n octets, most significant first. *)
Big_Endian(v, n) == [i \in 1 .. n |-> (v \div 256 ^ (n - i)) % 256]

(* The value of a sequence of octets read most significant first. *)
RECURSIVE Octets_Value(_)
Octets_Value(s) ==
    IF s = <<>> THEN 0
    ELSE Octets_Value(SubSeq(s, 1, Len(s) - 1)) * 256 + s[Len(s)]

(* The fewest octets that hold the unsigned value v (at least one). *)
Unsigned_Length(v) ==
    CASE v < 256        -> 1
      [] v < 65536      -> 2
      [] v < 16777216   -> 3
      [] OTHER          -> 4

(* encode_tag: tag number in bits 4-7 (15 = extended, number follows),    *)
(* class in bit 3, length/value in bits 0-2 (5 = extended length: one     *)
(* octet below 254, 254 + 16 bits up to 65535, else 255 + 32 bits).       *)
Encode_Tag(tag_number, context_specific, len_value) ==
    LET first == (IF tag_number <= 14 THEN tag_number * 16 ELSE 240)
                 + (IF context_specific THEN 8 ELSE 0)
                 + (IF len_value <= 4 THEN len_value ELSE 5)
        ext_tag == IF tag_number <= 14 THEN <<>> ELSE <<tag_number>>
        ext_len == CASE len_value <= 4     -> <<>>
                     [] len_value < 254    -> <<len_value>>
                     [] len_value <= 65535 -> <<254>> \o Big_Endian(len_value, 2)
                     [] OTHER              -> <<255>> \o Big_Endian(len_value, 4)
    IN  <<first>> \o ext_tag \o ext_len

encode_application_unsigned_Wide(value) ==
    (* a variant whose header gives the minimal width but writes 4 octets *)
    Encode_Tag(TAG_UNSIGNED_INT, FALSE, Unsigned_Length(value))
        \o Big_Endian(value, 4)

encode_application_unsigned(value) ==
    Encode_Tag(TAG_UNSIGNED_INT, FALSE, Unsigned_Length(value))
        \o Big_Endian(value, Unsigned_Length(value))

encode_application_enumerated(value) ==
    Encode_Tag(TAG_ENUMERATED, FALSE, Unsigned_Length(value))
        \o Big_Endian(value, Unsigned_Length(value))

(* encode_bacnet_object_id packs a 10-bit type and a 22-bit instance. *)
encode_application_object_id(object_type, instance) ==
    Encode_Tag(TAG_OBJECT_ID, FALSE, 4)
        \o Big_Endian((object_type % 1024) * 4194304 + (instance % 4194304), 4)

(* A character string: charset octet (0 = ANSI X3.4) and the text. *)
encode_application_character_string(text) ==
    Encode_Tag(TAG_CHARACTER_STRING, FALSE, 2) \o <<0, text>>

(* An extended length is canonical when the escalation used is the       *)
(* shortest one for its value: one octet for 5 .. 253, 0xFE and 16 bits *)
(* for 254 .. 65535, 0xFF and 32 bits above.                             *)
Length_Canonical(b, ext_octets, ext_value) ==
    CASE ext_octets = 0 -> b >= 5
      [] ext_octets = 2 -> ext_value >= 254
      [] OTHER          -> ext_value > 65535

(* decode_tag_number_and_value: the header fields and the number of      *)
(* octets the header occupies; ok is FALSE when the header runs past the *)
(* buffer or an extended length is not in canonical form.                *)
decode_tag_number_and_value(apdu) ==
    LET first == apdu[1]
        ext_tag == first \div 16 = 15
        pos == IF ext_tag THEN 2 ELSE 1
        lvt == first % 8
        b == apdu[pos + 1]
        ext_octets == CASE lvt # 5 -> 0
                        [] b = 254 -> 2
                        [] b = 255 -> 4
                        [] OTHER   -> 0
        hdr_len == pos + (IF lvt = 5 THEN 1 ELSE 0) + ext_octets
        ext_value == Octets_Value(SubSeq(apdu, pos + 2, hdr_len))
        value == CASE lvt # 5      -> lvt
                   [] ext_octets = 0 -> b
                   [] OTHER        -> ext_value
        canonical == lvt # 5 \/ Length_Canonical(b, ext_octets, ext_value)
    IN  IF Len(apdu) < pos \/ (lvt = 5 /\ Len(apdu) < pos + 1)
           \/ Len(apdu) < hdr_len
        THEN [ok |-> FALSE]
        ELSE [ok |-> canonical,
              tag |-> IF ext_tag THEN apdu[2] ELSE first \div 16,
              context |-> (first \div 8) % 2 = 1,
              value |-> value,
              len |-> hdr_len]

(* bacapp_decode_application_data: the application tag and value of the  *)
(* first element, and the octets it used, or len = -1 when the buffer is *)
(* empty, the tag is malformed or context specific, or the value runs    *)
(* past the end of the buffer.  A boolean carries its value in the tag.  *)
bacapp_decode_application_data(apdu) ==
    LET t == decode_tag_number_and_value(apdu)
        payload == SubSeq(apdu, t.len + 1, t.len + t.value)
        value == CASE t.tag = TAG_BOOLEAN    -> t.value
                   [] t.tag = TAG_OBJECT_ID  ->
                        [type |-> Octets_Value(payload) \div 4194304,
                         instance |-> Octets_Value(payload) % 4194304]
                   [] t.tag = TAG_CHARACTER_STRING -> payload[2]
                   [] OTHER                  -> Octets_Value(payload)
    IN  CASE apdu = <<>> \/ ~t.ok \/ t.context -> [len |-> -1]
          [] t.tag = TAG_BOOLEAN -> [len |-> t.len, tag |-> t.tag, value |-> value]
          [] Len(apdu) < t.len + t.value -> [len |-> -1]
          [] OTHER -> [len |-> t.len + t.value, tag |-> t.tag, value |-> value]

=============================================================================
