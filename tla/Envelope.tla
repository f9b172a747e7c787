------------------------------- MODULE Envelope -------------------------------
(***************************************************************************)
(* The binary envelopes between the native layer and JavaScript               *)
(* (src/src/bridge.js: decodeRequestEnvelope, encodeResponseEnvelope,         *)
(* encodeStreamStartEnvelope; src/rsrc/src/lib.rs: build_dispatch_envelope,   *)
(* build_http_response_from_dispatch, the stream-start branch of              *)
(* write_dynamic_dispatch_response, extract_ncache_trailer).                  *)
(*                                                                         *)
(* A byte has Byte values, 256 in the code; with fewer a length field           *)
(* overflows after a few bytes.  Texts are sequences of bytes.                *)
(***************************************************************************)
EXTENDS Integers, Sequences, SequencesExt, FiniteSets

CONSTANTS
    Byte,            \* how many values a byte has
    METHOD_CODES,    \* the codes of the methods that are known
    Sentinel,        \* the two bytes a stream starts with: 0xff 0x53
    Magic,           \* the two bytes of the ncache trailer: 0xca 0xce
    Messages         \* what is encoded

\* What fits into a field of one, two and four bytes.
U8 == Byte - 1
U16 == Byte * Byte - 1
U32 == Byte * Byte * (Byte * Byte) - 1

BRIDGE_VERSION == 2

Text == Seq(0..U8)
Pairs == Seq(Text \X Text)

\* Counts and bodies of responses fit their fields: nothing in the code checks them.
RequestMessages ==
    [kind : {"request"}, method : 0..U8, flags : 0..U16, handlerId : 0..U32, url : Text, path : Text,
     ip : Text, params : Seq(Text), headers : Pairs, body : {t \in Text : Len(t) <= U32}]
ResponseMessages ==
    [kind : {"response"}, status : Nat, headers : {h \in Pairs : Len(h) <= U16},
     body : {t \in Text : Len(t) <= U32}, ncache : {<<>>} \cup ((0..U32) \X (0..U32))]
StreamMessages ==
    [kind : {"stream"}, streamId : 0..((U32 + 1) * (U32 + 1) - 1), status : Nat,
     headers : {h \in Pairs : Len(h) <= U16}]

ASSUME EnvelopeAssumption ==
    /\ Byte \in Nat /\ Byte > BRIDGE_VERSION
    /\ METHOD_CODES \subseteq 0..U8
    /\ Sentinel \in (0..U8) \X (0..U8) /\ Magic \in (0..U8) \X (0..U8)
    /\ Messages \subseteq RequestMessages \cup ResponseMessages \cup StreamMessages

Refused == [ok |-> FALSE]

-----------------------------------------------------------------------------
(* Fields, little-endian; offsets count from 0 as in the code *)

writeU16(v) == <<v % Byte, (v \div Byte) % Byte>>
writeU32(v) == writeU16(v) \o writeU16(v \div (Byte * Byte))

fits(b, at, length) == at + length <= Len(b)
readBytes(b, at, length) == SubSeq(b, at + 1, at + length)
readU8(b, at) == b[at + 1]
readU16(b, at) == b[at + 1] + Byte * b[at + 2]
readU32(b, at) == readU16(b, at) + Byte * Byte * readU16(b, at + 2)

\* name length, value length, name, value
writePair(h) == <<Len(h[1]) % Byte>> \o writeU16(Len(h[2])) \o h[1] \o h[2]
writeText(t) == writeU16(Len(t)) \o t
writePairs(headers) == FlattenSeq([i \in 1..Len(headers) |-> writePair(headers[i])])
writeTexts(texts) == FlattenSeq([i \in 1..Len(texts) |-> writeText(texts[i])])
FitsPair(h) == Len(h[1]) <= U8 /\ Len(h[2]) <= U16

\* One step of reading: where it is, what was read, and whether all of it was there.
readPair(b, s) ==
    LET name == readU8(b, s.at)
        value == readU16(b, s.at + 1)
    IN  IF ~s.ok \/ ~fits(b, s.at, 3) \/ ~fits(b, s.at, 3 + name + value)
        THEN [s EXCEPT !.ok = FALSE]
        ELSE [ok |-> TRUE, at |-> s.at + 3 + name + value,
              read |-> Append(s.read, <<readBytes(b, s.at + 3, name),
                                        readBytes(b, s.at + 3 + name, value)>>)]

readText(b, s) ==
    IF ~s.ok \/ ~fits(b, s.at, 2) \/ ~fits(b, s.at, 2 + readU16(b, s.at))
    THEN [s EXCEPT !.ok = FALSE]
    ELSE [ok |-> TRUE, at |-> s.at + 2 + readU16(b, s.at),
          read |-> Append(s.read, readBytes(b, s.at + 2, readU16(b, s.at)))]

Start(at) == [ok |-> TRUE, at |-> at, read |-> <<>>]

readPairs(b, at, count) ==
    LET after[i \in 0..count] == IF i = 0 THEN Start(at) ELSE readPair(b, after[i - 1])
    IN  after[count]

readTexts(b, at, count) ==
    LET after[i \in 0..count] == IF i = 0 THEN Start(at) ELSE readText(b, after[i - 1])
    IN  after[count]

-----------------------------------------------------------------------------
(* Requests: native to JavaScript *)

\* The native side refuses what a length field cannot hold.
build_dispatch_envelope(r) ==
    IF \/ Len(r.url) > U32 \/ Len(r.path) > U16 \/ Len(r.ip) > U16
       \/ Len(r.params) > U16 \/ Len(r.headers) > U16
       \/ \E i \in 1..Len(r.params) : Len(r.params[i]) > U16
       \/ \E i \in 1..Len(r.headers) : ~FitsPair(r.headers[i])
    THEN Refused
    ELSE [ok |-> TRUE,
          bytes |-> <<BRIDGE_VERSION, r.method>> \o writeU16(r.flags) \o writeU32(r.handlerId)
                    \o writeU32(Len(r.url)) \o writeU16(Len(r.path)) \o writeU16(Len(r.params))
                    \o writeU16(Len(r.headers)) \o writeU32(Len(r.body)) \o writeU16(Len(r.ip))
                    \o r.url \o r.path \o r.ip
                    \o writeTexts(r.params) \o writePairs(r.headers) \o r.body]

FixedPart == 24

\* Every read checks the length first, so that a short buffer throws; so do another
\* version and an unknown method.
decodeRequestEnvelope(b) ==
    LET url == readU32(b, 8)   path == readU16(b, 12)   ip == readU16(b, 22)
        at == FixedPart + url + path + ip
        params == readTexts(b, at, readU16(b, 14))
        headers == readPairs(b, params.at, readU16(b, 16))
        body == readU32(b, 18)
    IN  IF ~fits(b, 0, FixedPart) THEN Refused
        ELSE IF readU8(b, 0) # BRIDGE_VERSION \/ readU8(b, 1) \notin METHOD_CODES \cup {0} THEN Refused
        ELSE IF ~fits(b, 0, at) THEN Refused
        ELSE IF ~params.ok \/ ~headers.ok \/ ~fits(b, headers.at, body) THEN Refused
        ELSE [ok |-> TRUE, method |-> readU8(b, 1), flags |-> readU16(b, 2), handlerId |-> readU32(b, 4),
              url |-> readBytes(b, FixedPart, url), path |-> readBytes(b, FixedPart + url, path),
              ip |-> readBytes(b, FixedPart + url + path, ip),
              params |-> params.read, headers |-> headers.read, body |-> readBytes(b, headers.at, body)]

-----------------------------------------------------------------------------
(* Responses: JavaScript to native *)

\* Mutant: the length of a header value is not checked.
encodeResponseEnvelopeUnchecked(s) ==
    [ok |-> TRUE,
     bytes |-> writeU16(s.status) \o writeU16(Len(s.headers)) \o writeU32(Len(s.body))
               \o writePairs(s.headers) \o s.body
               \o (IF s.ncache = <<>> THEN <<>>
                   ELSE Magic \o writeU32(s.ncache[1]) \o writeU32(s.ncache[2]))]

\* A header too long for its length field throws.  ncache is <<>> or <<ttl, maxEntries>>.
encodeResponseEnvelope(s) ==
    IF \E i \in 1..Len(s.headers) : ~FitsPair(s.headers[i]) THEN Refused
    ELSE [ok |-> TRUE,
          bytes |-> writeU16(s.status) \o writeU16(Len(s.headers)) \o writeU32(Len(s.body))
                    \o writePairs(s.headers) \o s.body
                    \o (IF s.ncache = <<>> THEN <<>>
                        ELSE Magic \o writeU32(s.ncache[1]) \o writeU32(s.ncache[2]))]

\* No length is checked here.  The id is written as two halves.
encodeStreamStartEnvelope(streamId, s) ==
    Sentinel \o writeU32(streamId) \o writeU32(streamId \div (U32 + 1))
    \o writeU16(s.status) \o writeU16(Len(s.headers)) \o writePairs(s.headers)

extract_ncache_trailer(b, at) ==
    IF ~fits(b, at, 10) \/ readBytes(b, at, 2) # Magic THEN <<>>
    ELSE <<readU32(b, at + 2), readU32(b, at + 6)>>

\* What the native side makes of the bytes: a stream, a response, or an error.  A stream
\* whose headers run past the end starts with those read so far.
ReadResponse(b) ==
    IF Len(b) >= 14 /\ readBytes(b, 0, 2) = Sentinel
    THEN [ok |-> TRUE, streamId |-> readU32(b, 2) + (U32 + 1) * readU32(b, 6),
          status |-> readU16(b, 10), headers |-> readPairs(b, 14, readU16(b, 12)).read,
          body |-> <<>>, ncache |-> <<>>]
    ELSE IF ~fits(b, 0, 8) THEN Refused
    ELSE LET headers == readPairs(b, 8, readU16(b, 2))
             body == readU32(b, 4)
         IN  IF ~headers.ok \/ ~fits(b, headers.at, body) THEN Refused
             ELSE [ok |-> TRUE, streamId |-> -1, status |-> readU16(b, 0), headers |-> headers.read,
                   body |-> readBytes(b, headers.at, body),
                   ncache |-> extract_ncache_trailer(b, headers.at + body)]
=============================================================================
