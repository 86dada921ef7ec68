------------------------------- MODULE Codec -------------------------------
(****************************************************************************)
(* How a key travels in a request (server/http_server.cpp, client.py): the  *)
(* client writes it base64url-encoded in the query string, handle_request   *)
(* finds, unescapes and decodes it; handle_keys encodes keys for a listing  *)
(* the client decodes.  Keys and texts are sequences of byte values; an int *)
(* is its 32 bits, the most significant first, because the code shifts more *)
(* than 32 bits through one.                                                *)
(****************************************************************************)
EXTENDS Integers, Sequences, SequencesExt

INT_BITS == 32

bits_of(d, n) == [i \in 1 .. n |-> (d \div 2 ^ (n - i)) % 2]

number(b) == FoldLeft(LAMBDA acc, x : 2 * acc + x, 0, b)

zero_bits(n) == [i \in 1 .. n |-> 0]

(* (val << n) | d, for d < 2^n.                                             *)
shift_in(val, d, n) == SubSeq(val, n + 1, INT_BITS) \o bits_of(d, n)

(* (val >> s) & (2^n - 1).                                                  *)
field(val, s, n) == number(SubSeq(val, INT_BITS - s - n + 1, INT_BITS - s))

(* "A..Za..z0..9-_" in ASCII.                                               *)
base64url_chars ==
    [i \in 0 .. 63 |-> IF i < 26 THEN 65 + i ELSE IF i < 52 THEN 71 + i
                       ELSE IF i < 62 THEN i - 4 ELSE IF i = 62 THEN 45 ELSE 95]

base64url_decode_table ==
    [c \in 0 .. 255 |-> IF \E i \in 0 .. 63 : base64url_chars[i] = c
                          THEN CHOOSE i \in 0 .. 63 : base64url_chars[i] = c ELSE -1]

Percent == 37
Plus == 43
Pad == 61      \* '='

-----------------------------------------------------------------------------
NoBits == [val |-> zero_bits(INT_BITS), bits |-> 0, result |-> <<>>, ended |-> FALSE]

(* An iteration of base64url_decode: '=' ends it, foreign characters are    *)
(* passed over.                                                             *)
decode_char(acc, c) ==
    LET d == base64url_decode_table[c]
        val == shift_in(acc.val, d, 6)
        bits == acc.bits + 6
    IN IF acc.ended \/ c = Pad THEN [acc EXCEPT !.ended = TRUE]
       ELSE IF d < 0 THEN acc
       ELSE IF bits >= 8
         THEN [acc EXCEPT !.val = val, !.bits = bits - 8,
                          !.result = Append(@, field(val, bits - 8, 8))]
         ELSE [acc EXCEPT !.val = val, !.bits = bits]

base64url_decode(str) == FoldLeft(decode_char, NoBits, str).result

(* `while (bits >= 6)', once.                                               *)
emit(acc) ==
    IF acc.bits < 6 THEN acc
    ELSE [acc EXCEPT !.bits = @ - 6,
                     !.result = Append(@, base64url_chars[field(acc.val, acc.bits - 6, 6)])]

(* At most 5 bits are left over, so the loop runs at most twice.            *)
encode_char(acc, c) ==
    emit(emit([acc EXCEPT !.val = shift_in(@, c, 8), !.bits = @ + 8]))

flush(acc) ==
    IF acc.bits = 0 THEN acc.result
    ELSE Append(acc.result,
                base64url_chars[field(shift_in(acc.val, 0, 6 - acc.bits), 0, 6)])

base64url_encode(str) == flush(FoldLeft(encode_char, NoBits, str))

-----------------------------------------------------------------------------
hex_digit(c) ==
    IF c \in 48 .. 57 THEN c - 48 ELSE IF c \in 65 .. 70 THEN c - 55
    ELSE IF c \in 97 .. 102 THEN c - 87 ELSE -1

not_hex == 256

(* `iss >> std::hex >> value' of two characters, as the char it becomes;    *)
(* the stream stops at what is no digit, and takes a blank or a sign first. *)
hex_pair(a, b) ==
    IF hex_digit(a) >= 0
      THEN IF hex_digit(b) >= 0 THEN 16 * hex_digit(a) + hex_digit(b)
           ELSE IF a = 48 /\ b \in {88, 120} THEN not_hex ELSE hex_digit(a)
    ELSE IF hex_digit(b) < 0 THEN not_hex
    ELSE IF a \in {9, 10, 11, 12, 13, 32, Plus} THEN hex_digit(b)
    ELSE IF a = 45 THEN (256 - hex_digit(b)) % 256 ELSE not_hex

(* Mutant: an escape at the very end is not one.                            *)
escape_fits_short(i, n) == i + 3 < n

(* `i + 2 < str.size()'.                                                    *)
escape_fits(i, n) == i + 2 < n

url_decode(str) ==
    LET at(i) == str[i + 1]
        step(acc, i) ==
          LET value == IF at(i) = Percent /\ escape_fits(i, Len(str))
                         THEN hex_pair(at(i + 1), at(i + 2)) ELSE not_hex
          IN IF acc.skip > 0 THEN [acc EXCEPT !.skip = @ - 1]
             ELSE IF value # not_hex
               THEN [result |-> Append(acc.result, value), skip |-> 2]
             ELSE [acc EXCEPT !.result = Append(@, IF at(i) = Plus THEN 32 ELSE at(i))]
    IN FoldLeft(step, [result |-> <<>>, skip |-> 0],
                [i \in 1 .. Len(str) |-> i - 1]).result

(* The query string is a sequence of pairs; the first with the name counts. *)
extract_query_param(query, param) ==
    LET found == {i \in 1 .. Len(query) : query[i].name = param}
    IN IF found = {} THEN <<>>
       ELSE query[CHOOSE i \in found : \A j \in found : i <= j].value

Answer(status) == [status |-> status, handler |-> "none", key |-> <<>>]
Handle(handler, k) == [status |-> 0, handler |-> handler, key |-> k]

WithKey(handler, query) ==
    LET param == extract_query_param(query, "key")
    IN IF param = <<>> THEN Answer(400)
       ELSE Handle(handler, base64url_decode(url_decode(param)))

handle_request(path, verb, query) ==
    IF path = "/health" THEN Answer(200)
    ELSE IF path = "/keys" /\ verb = "GET" THEN Handle("keys", <<>>)
    ELSE IF path = "/get" /\ verb = "GET" THEN WithKey("get", query)
    ELSE IF path = "/set" /\ verb \in {"PUT", "POST"} THEN WithKey("set", query)
    ELSE IF path = "/delete" /\ verb = "DELETE" THEN WithKey("delete", query)
    ELSE Answer(404)

-----------------------------------------------------------------------------
(* base64url as RFC 4648 defines it, which is what the Python library does: *)
(* the bits of the key in groups of six, the last one filled with zeros.    *)
all_bits(k) == FoldLeft(LAMBDA acc, c : acc \o bits_of(c, 8), <<>>, k)

urlsafe_b64encode(k) ==
    LET n == (8 * Len(k) + 5) \div 6
        b == all_bits(k) \o zero_bits(6 * n - 8 * Len(k))
    IN [i \in 1 .. n |-> base64url_chars[number(SubSeq(b, 6 * i - 5, 6 * i))]]

padding(n) == [i \in 1 .. (4 - (n % 4)) % 4 |-> Pad]

(* _encode_key; a query string needs no escapes for it.                     *)
encode_key(k) == urlsafe_b64encode(k)

(* The key whose padded encoding this is; none if there is no such key.     *)
urlsafe_b64decode(text, Candidates) ==
    {k \in Candidates : urlsafe_b64encode(k) \o padding(Len(urlsafe_b64encode(k))) = text}

(* _decode_key adds the padding the listing has not.                        *)
decode_key(text, Candidates) ==
    LET missing == 4 - (Len(text) % 4)
        added == IF missing = 4 THEN 0 ELSE missing
    IN urlsafe_b64decode(text \o [i \in 1 .. added |-> Pad], Candidates)

hex_chars(c) ==
    LET hex(d) == IF d < 10 THEN 48 + d ELSE 55 + d IN <<hex(c \div 16), hex(c % 16)>>

escape(text) == FoldLeft(LAMBDA acc, c : acc \o <<Percent>> \o hex_chars(c), <<>>, text)

(* What the writers of requests send: client.py; others that keep the       *)
(* padding, that escape it, or that escape every character.                 *)
Writings(k) ==
    LET e == urlsafe_b64encode(k)
        p == padding(Len(e))
    IN {encode_key(k), e \o p, e \o escape(p), escape(e)}

(* The whole query string; a parameter with a longer name may come first,   *)
(* another key after it.                                                    *)
Queries(k) ==
    {<<[name |-> "key", value |-> w]>> : w \in Writings(k)}
      \cup {<<[name |-> "keyring", value |-> w], [name |-> "key", value |-> w],
              [name |-> "key", value |-> <<65>>]>> : w \in Writings(k)}

(* What the line of a listing for k might be taken for.                     *)
decodings(k, Bytes) ==
    {SubSeq(k, 1, n) : n \in 0 .. Len(k)} \cup {Append(k, b) : b \in Bytes}

(* However k is written, every handler reads k, or refuses the request if k *)
(* is empty; and the line of a listing that stands for k is decoded to it.  *)
RoundTrip(k, Bytes) ==
    /\ \A query \in Queries(k), handler \in {"get", "set", "delete"} :
         WithKey(handler, query) = IF k = <<>> THEN Answer(400) ELSE Handle(handler, k)
    /\ decode_key(base64url_encode(k), decodings(k, Bytes)) = {k}
=============================================================================
