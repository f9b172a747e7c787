---------------------------- MODULE ConnectionProofs ----------------------------
(***************************************************************************)
(* For every set of connections, every mix of request shapes and every size    *)
(* of the buffers and their pool, however reads split and join what arrives:    *)
(* the handlers are given exactly the requests that their own client sent, in   *)
(* order, and the parser is always at the next of them.                        *)
(***************************************************************************)
EXTENDS Connection, FiniteSetTheorems, SequenceTheorems, TLAPS

Total(r) == r.shape.hdr + r.shape.body
Place(p) == <<p.req.n, p.k>>
\* Where the piece after p is in its client's stream of requests.
After(p) == IF p.k < Total(p.req) THEN <<p.req.n, p.k + 1>> ELSE <<p.req.n + 1, 1>>
EndOf(s, a) == IF s = <<>> THEN a ELSE After(s[Len(s)])

\* s is a piece of the stream of the requests reqs, without gaps, and begins at
\* place a unless it is empty.  Gaps are excluded between any two places, not
\* only between neighbours.
Run(reqs, s, a) ==
    /\ \A i \in 1..Len(s) :
          /\ s[i].req.n \in 1..Len(reqs) /\ s[i].req = reqs[s[i].req.n]
          /\ s[i].k \in 1..Total(s[i].req)
    /\ \A i, j \in 1..Len(s) : i <= j /\ s[i].k + (j - i) <= Total(s[i].req) =>
          s[j].req = s[i].req /\ s[j].k = s[i].k + (j - i)
    /\ \A i \in 1..Len(s) : i + 1 <= Len(s) => Place(s[i + 1]) = After(s[i])
    /\ s # <<>> => Place(s[1]) = a

\* From place a on, the stream of reqs is in a buffer, on the wire and with the
\* client, in this order.
Flow(reqs, data, onWire, held, a) ==
    LET b == EndOf(data, a)
        d == EndOf(onWire, b)
    IN  /\ Run(reqs, data, a) /\ Run(reqs, onWire, b) /\ Run(reqs, held, d)
        /\ EndOf(held, d) = <<Len(reqs) + 1, 1>>
Stream(c, a) == Flow(sent[c], buffer[c].data, wire[c], unsent[c], a)

AllRequests == [of : Conns, n : Nat, shape : Shapes]
AllPieces == [req : AllRequests, k : Nat]
Vec == [cap : {0, BUFFER_INITIAL_CAPACITY}, data : Seq(AllPieces)]
Work == [req : AllRequests \cup {<<>>}, body : Seq(AllPieces)]
Reasons == {"none", "malformed", "408", "431", "eof", "timeout", "refused", "done"}

-----------------------------------------------------------------------------
(* The inductive invariant: types, then each connection for itself.            *)

Types ==
    /\ pool \in Seq(Vec) /\ Len(pool) <= BUFFER_POOL_MAX_SIZE
    /\ \A i \in 1..Len(pool) : pool[i].data = <<>>
    /\ conn \in [Conns -> {"none", "parse", "body", "respond", "ws", "closed"}]
    /\ buffer \in [Conns -> Vec]
    /\ deadline \in [Conns -> BOOLEAN] /\ eof \in [Conns -> BOOLEAN]
    /\ cur \in [Conns -> Work]
    /\ sent \in [Conns -> Seq(AllRequests)]
    /\ unsent \in [Conns -> Seq(AllPieces)] /\ wire \in [Conns -> Seq(AllPieces)]
    /\ answered \in [Conns -> Seq(Work)]
    /\ reason \in [Conns -> Reasons]

Begun == UNION {ToSet(sent[d]) : d \in Conns}
SentInv ==
    /\ IsFiniteSet(Begun) /\ Cardinality(Begun) <= MaxRequests
    /\ \A c \in Conns : \A i \in 1..Len(sent[c]) : sent[c][i].of = c /\ sent[c][i].n = i

\* The number of the request that c is to answer next.
Turn(c) == Len(answered[c]) + 1

\* What has been answered is what was sent, in order.
Answered(c) ==
    \A i \in 1..Len(answered[c]) :
        /\ i <= Len(sent[c])
        /\ answered[c][i] = [req |-> sent[c][i], body |-> Given(sent[c][i])]

\* The request being served is the next one, and its body is read up to a place.
Serving(c) ==
    /\ Turn(c) <= Len(sent[c]) /\ cur[c].req = sent[c][Turn(c)]
    /\ cur[c].req.shape.kind = "http"

Reader(c) ==
    CASE conn[c] \in {"none", "parse"} ->
            /\ Stream(c, <<Turn(c), IF buffer[c].data = <<>> THEN 1 ELSE buffer[c].data[1].k>>)
            /\ buffer[c].data # <<>> => buffer[c].data[1].k <= buffer[c].data[1].req.shape.hdr
            /\ conn[c] = "none" => buffer[c].data = <<>>
      [] conn[c] = "body" ->
            /\ Serving(c) /\ buffer[c].data = <<>>
            /\ Len(cur[c].body) < cur[c].req.shape.body
            /\ \A i \in 1..Len(cur[c].body) :
                    cur[c].body[i] = [req |-> cur[c].req, k |-> cur[c].req.shape.hdr + i]
            /\ Stream(c, <<Turn(c), cur[c].req.shape.hdr + Len(cur[c].body) + 1>>)
      [] conn[c] = "respond" ->
            /\ Serving(c) /\ cur[c].body = Body(cur[c].req)
            /\ Stream(c, <<Turn(c) + 1, 1>>)
      [] OTHER -> buffer[c].data = <<>>

ConnOK(c) == Answered(c) /\ Reader(c) /\ Len(buffer[c].data) <= buffer[c].cap

IInv == Types /\ SentInv /\ \A c \in Conns : ConnOK(c)

-----------------------------------------------------------------------------
(* Requests, pieces and parts of sequences.                                    *)

LEMMA Sizes ==
  ASSUME NEW r \in AllRequests
  PROVE  /\ r.n \in Nat /\ r.shape \in Shapes /\ r.of \in Conns
         /\ r.shape.hdr \in Nat \ {0} /\ r.shape.body \in Nat /\ Total(r) \in Nat \ {0}
         /\ r.shape.hdr <= Total(r)
<1>1. r.n \in Nat /\ r.shape \in Shapes /\ r.of \in Conns
  BY DEF AllRequests
<1>2. r.shape.hdr \in Nat \ {0} /\ r.shape.body \in Nat
  BY <1>1, ConnectionAssumption
<1> QED
  BY <1>1, <1>2 DEF Total

LEMMA Typed ==
  ASSUME NEW s \in Seq(AllPieces)
  PROVE  /\ Len(s) \in Nat /\ (s = <<>> <=> Len(s) = 0)
         /\ \A i \in 1..Len(s) :
              /\ s[i] \in AllPieces /\ s[i].req \in AllRequests /\ s[i].k \in Nat
              /\ s[i].req.n \in Nat /\ Total(s[i].req) \in Nat \ {0}
<1>1. \A i \in 1..Len(s) : s[i] \in AllPieces
  BY ElementOfSeq
<1>2. \A p \in AllPieces : p.req \in AllRequests /\ p.k \in Nat
  BY DEF AllPieces
<1> QED
  BY <1>1, <1>2, Sizes, EmptySeq

LEMMA PieceEqual ==
  ASSUME NEW p \in AllPieces, NEW q \in AllPieces, p.req = q.req, p.k = q.k
  PROVE  p = q
  BY DEF AllPieces

LEMMA PartOf ==
  ASSUME NEW S, NEW s \in Seq(S), NEW m \in Nat \ {0}, NEW n \in Nat, m <= n + 1, n <= Len(s)
  PROVE  /\ SubSeq(s, m, n) \in Seq(S) /\ Len(SubSeq(s, m, n)) = n - m + 1
         /\ \A i \in 1..(n - m + 1) : SubSeq(s, m, n)[i] = s[m + i - 1] /\ m + i - 1 \in 1..Len(s)
<1>1. Len(s) \in Nat /\ m \in Int /\ n \in Int
  OBVIOUS
<1>2. \A i \in m..n : s[i] \in S
  BY <1>1, ElementOfSeq
<1>3. /\ SubSeq(s, m, n) \in Seq(S)
      /\ Len(SubSeq(s, m, n)) = IF m <= n THEN n - m + 1 ELSE 0
      /\ \A i \in 1..n - m + 1 : SubSeq(s, m, n)[i] = s[m + i - 1]
  BY <1>1, <1>2, SubSeqProperties
<1> QED
  BY <1>1, <1>3

-----------------------------------------------------------------------------
(* Runs: every part of one is one, and one grows at its end.                   *)

LEMMA RunOfNothing == ASSUME NEW reqs, NEW a PROVE Run(reqs, <<>>, a) /\ EndOf(<<>>, a) = a
  BY DEF Run, EndOf

LEMMA RunWindow ==
  ASSUME NEW reqs, NEW a, NEW s \in Seq(AllPieces), Run(reqs, s, a), NEW t \in Seq(AllPieces),
         NEW off \in Nat, off + Len(t) <= Len(s), \A i \in 1..Len(t) : t[i] = s[off + i]
  PROVE  Run(reqs, t, IF off = 0 THEN a ELSE After(s[off]))
<1>0. Len(s) \in Nat /\ Len(t) \in Nat /\ (t = <<>> <=> Len(t) = 0) /\ (s = <<>> <=> Len(s) = 0)
  BY Typed
<1>1. \A i \in 1..Len(t) : off + i \in 1..Len(s)
  BY <1>0
<1>2. \A i \in 1..Len(t) :
          /\ t[i].req.n \in 1..Len(reqs) /\ t[i].req = reqs[t[i].req.n]
          /\ t[i].k \in 1..Total(t[i].req)
  BY <1>1, SMTT(30) DEF Run
<1>3. \A i, j \in 1..Len(t) : i <= j /\ t[i].k + (j - i) <= Total(t[i].req) =>
          t[j].req = t[i].req /\ t[j].k = t[i].k + (j - i)
  <2> SUFFICES ASSUME NEW i \in 1..Len(t), NEW j \in 1..Len(t), i <= j,
                      t[i].k + (j - i) <= Total(t[i].req)
               PROVE  t[j].req = t[i].req /\ t[j].k = t[i].k + (j - i)
    OBVIOUS
  <2>1. off + i \in 1..Len(s) /\ off + j \in 1..Len(s) /\ off + i <= off + j /\ (off + j) - (off + i) = j - i
    BY <1>0, <1>1
  <2>2. t[i] = s[off + i] /\ t[j] = s[off + j]
    OBVIOUS
  <2> DEFINE x == off + i  y == off + j
  <2>3. x \in 1..Len(s) /\ y \in 1..Len(s) /\ x <= y /\ s[x].k + (y - x) <= Total(s[x].req)
    BY <2>1, <2>2
  <2> HIDE DEF x, y
  <2>4. s[y].req = s[x].req /\ s[y].k = s[x].k + (y - x)
    BY <2>3 DEF Run
  <2> QED
    BY <2>1, <2>2, <2>4 DEF x, y
<1>4. \A i \in 1..Len(t) : i + 1 <= Len(t) => Place(t[i + 1]) = After(t[i])
  <2> SUFFICES ASSUME NEW i \in 1..Len(t), i + 1 <= Len(t) PROVE Place(t[i + 1]) = After(t[i])
    OBVIOUS
  <2>1. i + 1 \in 1..Len(t) /\ off + (i + 1) = (off + i) + 1 /\ (off + i) + 1 <= Len(s)
    BY <1>0
  <2> DEFINE x == off + i
  <2>2. x \in 1..Len(s) /\ t[i] = s[x] /\ t[i + 1] = s[x + 1] /\ x + 1 <= Len(s)
    BY <1>1, <2>1
  <2> HIDE DEF x
  <2> QED
    BY <2>2 DEF Run
<1>5. t # <<>> => Place(t[1]) = IF off = 0 THEN a ELSE After(s[off])
  <2> SUFFICES ASSUME t # <<>> PROVE Place(t[1]) = IF off = 0 THEN a ELSE After(s[off])
    OBVIOUS
  <2>1. 1 \in 1..Len(t) /\ t[1] = s[off + 1] /\ off + 1 <= Len(s) /\ s # <<>>
    BY <1>0
  <2>2. CASE off = 0
    BY <2>1, <2>2 DEF Run
  <2>3. CASE off # 0
    <3>1. off \in 1..Len(s)
      BY <1>0, <2>1, <2>3
    <3> QED
      BY <2>1, <2>3, <3>1 DEF Run
  <2> QED
    BY <2>2, <2>3
<1> QED
  BY <1>2, <1>3, <1>4, <1>5 DEF Run

\* The first n pieces, and what is left of them.
LEMMA RunSplit ==
  ASSUME NEW reqs, NEW a, NEW s \in Seq(AllPieces), Run(reqs, s, a), NEW n \in 1..Len(s)
  PROVE  LET t == SubSeq(s, 1, n)
             u == SubSeq(s, n + 1, Len(s))
         IN  /\ t \in Seq(AllPieces) /\ Len(t) = n /\ t # <<>> /\ \A i \in 1..n : t[i] = s[i]
             /\ Run(reqs, t, a) /\ EndOf(t, a) = After(s[n])
             /\ u \in Seq(AllPieces) /\ Len(u) = Len(s) - n
             /\ Run(reqs, u, After(s[n])) /\ EndOf(u, After(s[n])) = EndOf(s, a)
<1> DEFINE t == SubSeq(s, 1, n)
           u == SubSeq(s, n + 1, Len(s))
<1>0. Len(s) \in Nat /\ n \in Nat \ {0} /\ n <= Len(s) /\ s # <<>>
  BY Typed
<1>1. /\ t \in Seq(AllPieces) /\ Len(t) = n /\ \A i \in 1..n : t[i] = s[i]
  <2>1. /\ t \in Seq(AllPieces) /\ Len(t) = n - 1 + 1
        /\ \A i \in 1..(n - 1 + 1) : t[i] = s[1 + i - 1]
    BY <1>0, PartOf
  <2> HIDE DEF t
  <2> QED
    BY <1>0, <2>1
<1>2. /\ u \in Seq(AllPieces) /\ Len(u) = Len(s) - n /\ \A i \in 1..Len(u) : u[i] = s[n + i]
  <2>1. /\ u \in Seq(AllPieces) /\ Len(u) = Len(s) - (n + 1) + 1
        /\ \A i \in 1..(Len(s) - (n + 1) + 1) : u[i] = s[(n + 1) + i - 1]
    <3>1. n + 1 \in Nat \ {0} /\ n + 1 <= Len(s) + 1 /\ Len(s) <= Len(s)
      BY <1>0
    <3> QED
      BY <1>0, <3>1, PartOf
  <2>2. \A i \in 1..(Len(s) - n) : (n + 1) + i - 1 = n + i
    BY <1>0
  <2> HIDE DEF u
  <2> QED
    BY <1>0, <2>1, <2>2
<1> HIDE DEF t, u
<1>3. Run(reqs, t, a)
  <2>1. 0 + Len(t) <= Len(s) /\ \A i \in 1..Len(t) : t[i] = s[0 + i]
    BY <1>0, <1>1
  <2>2. Run(reqs, t, IF 0 = 0 THEN a ELSE After(s[0]))
    BY <1>1, <2>1, RunWindow
  <2> QED
    BY <2>2
<1>4. Run(reqs, u, After(s[n]))
  <2>1. n + Len(u) <= Len(s)
    BY <1>0, <1>2
  <2>2. Run(reqs, u, IF n = 0 THEN a ELSE After(s[n]))
    BY <1>0, <1>2, <2>1, RunWindow
  <2> QED
    BY <1>0, <2>2
<1>5. t # <<>> /\ EndOf(t, a) = After(s[n])
  BY <1>0, <1>1, Typed DEF EndOf
<1>6. EndOf(u, After(s[n])) = EndOf(s, a)
  <2>1. CASE n = Len(s)
    BY <1>0, <1>2, <2>1, Typed DEF EndOf
  <2>2. CASE n < Len(s)
    <3>1. Len(u) \in 1..Len(u) /\ n + Len(u) = Len(s) /\ u # <<>>
      BY <1>0, <1>2, <2>2, Typed
    <3> QED
      BY <1>0, <1>2, <3>1 DEF EndOf
  <2> QED
    BY <1>0, <2>1, <2>2
<1> QED
  BY <1>1, <1>2, <1>3, <1>4, <1>5, <1>6 DEF t, u

\* Pieces of one request that follow each other, in closed form.
LEMMA RunInside ==
  ASSUME NEW reqs, NEW a, NEW s \in Seq(AllPieces), Run(reqs, s, a), s # <<>>,
         NEW j \in 1..Len(s), s[1].k + (j - 1) <= Total(s[1].req)
  PROVE  s[j].req = s[1].req /\ s[j].k = s[1].k + (j - 1)
<1>1. 1 \in 1..Len(s) /\ 1 <= j
  BY Typed
<1> QED
  BY <1>1 DEF Run

\* A piece is added at the end of the run, in its turn.
LEMMA RunGrows ==
  ASSUME NEW reqs, NEW a, NEW s \in Seq(AllPieces), Run(reqs, s, a), NEW p \in AllPieces,
         p.req.n \in 1..Len(reqs), p.req = reqs[p.req.n], p.k \in 1..Total(p.req),
         Place(p) = EndOf(s, a)
  PROVE  /\ Append(s, p) \in Seq(AllPieces)
         /\ Run(reqs, Append(s, p), a) /\ EndOf(Append(s, p), a) = After(p)
<1> DEFINE t == Append(s, p)  n == Len(s)
<1>0. /\ t \in Seq(AllPieces) /\ t # <<>> /\ Len(t) = n + 1 /\ n \in Nat
      /\ (\A i \in 1..n : t[i] = s[i]) /\ t[n + 1] = p
  BY AppendProperties
<1>1. \A i \in 1..n : /\ s[i].req \in AllRequests /\ s[i].k \in Nat /\ s[i].req.n \in Nat
                      /\ Total(s[i].req) \in Nat \ {0} /\ (n = 0 <=> s = <<>>)
  BY Typed
<1>2. p.req \in AllRequests /\ p.k \in Nat /\ p.req.n \in Nat
  BY Sizes DEF AllPieces
<1> HIDE DEF t, n
<1>3. \A i \in 1..n + 1 :
          /\ t[i].req.n \in 1..Len(reqs) /\ t[i].req = reqs[t[i].req.n]
          /\ t[i].k \in 1..Total(t[i].req)
  <2>1. \A i \in 1..n + 1 : i \in 1..n \/ i = n + 1
    BY <1>0
  <2> QED
    BY <1>0, <2>1 DEF Run, n
<1>4. \A i, j \in 1..n + 1 : i <= j /\ t[i].k + (j - i) <= Total(t[i].req) =>
          t[j].req = t[i].req /\ t[j].k = t[i].k + (j - i)
  <2> SUFFICES ASSUME NEW i \in 1..n + 1, NEW j \in 1..n + 1, i <= j,
                      t[i].k + (j - i) <= Total(t[i].req)
               PROVE  t[j].req = t[i].req /\ t[j].k = t[i].k + (j - i)
    OBVIOUS
  <2>1. CASE j \in 1..n
    <3>1. i \in 1..n /\ t[i] = s[i] /\ t[j] = s[j]
      BY <1>0, <2>1
    <3> QED
      BY <2>1, <3>1 DEF Run, n
  <2>2. CASE j = n + 1 /\ i = n + 1
    BY <1>0, <1>2, <2>2
  <2>3. CASE j = n + 1 /\ i \in 1..n
    <3>1. t[i] = s[i] /\ t[j] = p /\ n \in 1..n /\ s # <<>>
      BY <1>0, <1>1, <2>3
    <3>a. /\ s[i].k \in Nat /\ Total(s[i].req) \in Nat /\ i \in Nat /\ n \in Nat /\ i <= n
      BY <1>0, <1>1, <2>3
    <3>b. s[i].k + ((n + 1) - i) <= Total(s[i].req)
      BY <2>3, <3>1
    <3>2. s[i].k + (n - i) < Total(s[i].req) /\ s[i].k + (n - i) <= Total(s[i].req) /\ i <= n
      BY <3>a, <3>b
    <3>3. s[n].req = s[i].req /\ s[n].k = s[i].k + (n - i)
      BY <2>3, <3>1, <3>2 DEF Run, n
    <3>4. Place(p) = <<s[n].req.n, s[n].k + 1>>
      BY <3>1, <3>2, <3>3 DEF EndOf, After, n
    <3>5. p.req.n = s[n].req.n /\ p.k = s[n].k + 1
      BY <3>4 DEF Place
    <3>6. p.req = s[n].req
      BY <3>1, <3>5 DEF Run, n
    <3>7. s[i].k \in Nat /\ i \in Nat /\ n \in Nat
      BY <1>0, <1>1, <2>3
    <3>8. p.k = s[i].k + ((n + 1) - i)
      BY <3>3, <3>5, <3>7, SMTT(30)
    <3> QED
      BY <2>3, <3>1, <3>3, <3>6, <3>8
  <2> QED
    BY <1>0, <2>1, <2>2, <2>3
<1>5. \A i \in 1..n + 1 : i + 1 <= n + 1 => Place(t[i + 1]) = After(t[i])
  <2> SUFFICES ASSUME NEW i \in 1..n + 1, i + 1 <= n + 1 PROVE Place(t[i + 1]) = After(t[i])
    OBVIOUS
  <2>1. CASE i + 1 <= n
    <3>1. i \in 1..n /\ i + 1 \in 1..n
      BY <1>0, <2>1
    <3> QED
      BY <1>0, <2>1, <3>1 DEF Run, n
  <2>2. CASE i = n
    <3>1. n \in 1..n /\ s # <<>>
      BY <1>0, <1>1, <2>2
    <3> QED
      BY <1>0, <2>2, <3>1 DEF EndOf, n
  <2> QED
    BY <1>0, <2>1, <2>2
<1>6. Place(t[1]) = a
  <2>1. CASE s = <<>>
    BY <1>0, <2>1, Typed DEF EndOf, n
  <2>2. CASE s # <<>>
    <3>1. 1 \in 1..n
      BY <2>2, Typed DEF n
    <3> QED
      BY <1>0, <2>2, <3>1 DEF Run
  <2> QED
    BY <2>1, <2>2
<1>7. Run(reqs, t, a) /\ EndOf(t, a) = After(p)
  BY <1>0, <1>3, <1>4, <1>5, <1>6 DEF Run, EndOf
<1> QED
  BY <1>0, <1>7 DEF t

\* The client begins another request: runs of the earlier ones stay runs.
LEMMA RunOfMore ==
  ASSUME NEW reqs \in Seq(AllRequests), NEW r \in AllRequests, NEW a, NEW s \in Seq(AllPieces),
         Run(reqs, s, a)
  PROVE  Run(Append(reqs, r), s, a)
<1>1. /\ Len(reqs) \in Nat /\ Len(Append(reqs, r)) = Len(reqs) + 1
      /\ \A i \in 1..Len(reqs) : Append(reqs, r)[i] = reqs[i]
  BY AppendProperties
<1>2. 1..Len(reqs) \subseteq 1..Len(Append(reqs, r))
  BY <1>1
<1> QED
  BY <1>1, <1>2 DEF Run

LEMMA PiecesOf ==
  ASSUME NEW r \in AllRequests
  PROVE  /\ Pieces(r) \in Seq(AllPieces) /\ Len(Pieces(r)) = Total(r)
         /\ \A k \in 1..Total(r) : Pieces(r)[k] = [req |-> r, k |-> k]
         /\ \A k \in 1..Total(r) : Pieces(r)[k].req = r /\ Pieces(r)[k].k = k
<1>1. Total(r) \in Nat
  BY Sizes
<1>2. Pieces(r) = [k \in 1..Total(r) |-> [req |-> r, k |-> k]]
  BY DEF Pieces, Total
<1>3. \A k \in 1..Total(r) : [req |-> r, k |-> k] \in AllPieces
  BY <1>1 DEF AllPieces
<1>4. Pieces(r) \in Seq(AllPieces) /\ Len(Pieces(r)) = Total(r)
  BY <1>1, <1>2, <1>3
<1>5. \A k \in 1..Total(r) : Pieces(r)[k] = [req |-> r, k |-> k]
  BY <1>2
<1>6. \A k \in 1..Total(r) : [req |-> r, k |-> k].req = r /\ [req |-> r, k |-> k].k = k
  OBVIOUS
<1> QED
  BY <1>4, <1>5, <1>6

\* All of the new request follows what the client held back before.
LEMMA RunOfNew ==
  ASSUME NEW reqs \in Seq(AllRequests), NEW r \in AllRequests, r.n = Len(reqs) + 1,
         NEW a, NEW s \in Seq(AllPieces), Run(reqs, s, a), EndOf(s, a) = <<Len(reqs) + 1, 1>>
  PROVE  /\ s \o Pieces(r) \in Seq(AllPieces)
         /\ Run(Append(reqs, r), s \o Pieces(r), a)
         /\ EndOf(s \o Pieces(r), a) = <<Len(Append(reqs, r)) + 1, 1>>
<1> DEFINE more == Append(reqs, r)  t == s \o Pieces(r)  n == Len(s)  m == Total(r)
<1>0. /\ Len(reqs) \in Nat /\ Len(more) = Len(reqs) + 1 /\ more[Len(reqs) + 1] = r
  BY AppendProperties
<1>1. Run(more, s, a)
  BY RunOfMore
<1>2. m \in Nat \ {0} /\ n \in Nat /\ (n = 0 <=> s = <<>>)
  BY Sizes, Typed
<1>3. /\ t \in Seq(AllPieces) /\ Len(t) = n + m
      /\ \A i \in 1..n + m : t[i] = IF i <= n THEN s[i] ELSE Pieces(r)[i - n]
  <2>1. Pieces(r) \in Seq(AllPieces) /\ Len(Pieces(r)) = m
    BY PiecesOf
  <2> DEFINE q == Pieces(r)
  <2> HIDE DEF q, m
  <2>2. /\ s \o q \in Seq(AllPieces) /\ Len(s \o q) = Len(s) + Len(q)
        /\ \A i \in 1..Len(s) + Len(q) : (s \o q)[i] = IF i <= Len(s) THEN s[i] ELSE q[i - Len(s)]
    BY <2>1, ConcatProperties DEF q
  <2> QED
    BY <2>1, <2>2 DEF q
<1>4. /\ \A i \in 1..n : t[i] = s[i]
      /\ \A i \in n + 1..n + m : i - n \in 1..m /\ t[i].req = r /\ t[i].k = i - n
  BY <1>2, <1>3, PiecesOf
<1>5. \A i \in 1..n : /\ s[i].req \in AllRequests /\ s[i].k \in Nat /\ s[i].req.n \in Nat
                      /\ Total(s[i].req) \in Nat \ {0}
  BY Typed
<1> HIDE DEF more, t, n, m
<1>6. \A i \in 1..n + m : i \in 1..n \/ i \in n + 1..n + m
  BY <1>2
<1>7. \A i \in 1..n + m :
          /\ t[i].req.n \in 1..Len(more) /\ t[i].req = more[t[i].req.n]
          /\ t[i].k \in 1..Total(t[i].req)
  <2> SUFFICES ASSUME NEW i \in 1..n + m
               PROVE  /\ t[i].req.n \in 1..Len(more) /\ t[i].req = more[t[i].req.n]
                      /\ t[i].k \in 1..Total(t[i].req)
    OBVIOUS
  <2>1. CASE i \in 1..n
    BY <1>1, <1>4, <2>1 DEF Run, n
  <2>2. CASE i \in n + 1..n + m
    BY <1>0, <1>2, <1>4, <2>2 DEF m
  <2> QED
    BY <1>6, <2>1, <2>2
<1>8. n \in 1..n => s[n].k = Total(s[n].req) /\ s[n].req.n = Len(reqs)
  <2> SUFFICES ASSUME n \in 1..n PROVE s[n].k = Total(s[n].req) /\ s[n].req.n = Len(reqs)
    OBVIOUS
  <2>0. s # <<>>
    BY <1>2
  <2>1. After(s[n]) = <<Len(reqs) + 1, 1>>
    BY <2>0 DEF EndOf, n
  <2>2. s[n].k \in 1..Total(s[n].req) /\ s[n].req.n \in 1..Len(reqs)
    BY DEF Run, n
  <2>3. ~(s[n].k < Total(s[n].req))
    <3>1. SUFFICES ASSUME s[n].k < Total(s[n].req) PROVE FALSE
      OBVIOUS
    <3>2. s[n].req.n = Len(reqs) + 1
      BY <2>1, <3>1 DEF After
    <3> QED
      BY <1>0, <2>2, <3>2
  <2>4. s[n].req.n + 1 = Len(reqs) + 1
    BY <2>1, <2>3 DEF After
  <2> QED
    BY <1>0, <1>5, <2>2, <2>3, <2>4, SMTT(30)
<1>9. \A i, j \in 1..n + m : i <= j /\ t[i].k + (j - i) <= Total(t[i].req) =>
          t[j].req = t[i].req /\ t[j].k = t[i].k + (j - i)
  <2> SUFFICES ASSUME NEW i \in 1..n + m, NEW j \in 1..n + m, i <= j,
                      t[i].k + (j - i) <= Total(t[i].req)
               PROVE  t[j].req = t[i].req /\ t[j].k = t[i].k + (j - i)
    OBVIOUS
  <2>1. CASE i \in n + 1..n + m
    <3>1. j \in n + 1..n + m
      BY <1>2, <2>1
    <3>2. i \in Nat /\ j \in Nat /\ (j - n) = (i - n) + (j - i)
      BY <1>2, <2>1, <3>1
    <3> QED
      BY <1>4, <2>1, <3>1, <3>2
  <2>2. CASE i \in 1..n /\ j \in 1..n
    <3>1. t[i] = s[i] /\ t[j] = s[j]
      BY <1>4, <2>2
    <3> QED
      BY <2>2, <3>1 DEF Run, n
  <2>3. CASE i \in 1..n /\ j \in n + 1..n + m
    <3>1. t[i] = s[i] /\ n \in 1..n /\ i <= n /\ i \in Nat /\ j \in Nat /\ j >= n + 1
      BY <1>2, <1>4, <2>3
    <3>2. s[i].k + (n - i) < Total(s[i].req) /\ s[i].k + (n - i) <= Total(s[i].req)
      BY <1>2, <1>5, <2>3, <3>1
    <3>3. s[n].req = s[i].req /\ s[n].k = s[i].k + (n - i)
      BY <2>3, <3>1, <3>2 DEF Run, n
    <3> QED
      BY <1>5, <1>8, <3>1, <3>2, <3>3
  <2> QED
    BY <1>6, <2>1, <2>2, <2>3
<1>10. \A i \in 1..n + m : i + 1 <= n + m => Place(t[i + 1]) = After(t[i])
  <2> SUFFICES ASSUME NEW i \in 1..n + m, i + 1 <= n + m PROVE Place(t[i + 1]) = After(t[i])
    OBVIOUS
  <2>1. CASE i + 1 <= n
    <3>1. i \in 1..n /\ i + 1 \in 1..n
      BY <1>2, <2>1
    <3> QED
      BY <1>4, <2>1, <3>1 DEF Run, n
  <2>2. CASE i = n
    <3>1. n \in 1..n /\ n + 1 \in n + 1..n + m /\ (n + 1) - n = 1
      BY <1>2, <2>2
    <3>2. t[n] = s[n] /\ t[n + 1].req = r /\ t[n + 1].k = 1
      BY <1>4, <3>1
    <3>3. s # <<>>
      BY <1>2, <3>1
    <3>4. After(s[n]) = <<Len(reqs) + 1, 1>>
      BY <3>3 DEF EndOf, n
    <3> QED
      BY <2>2, <3>2, <3>4 DEF Place
  <2>3. CASE i \in n + 1..n + m
    <3>1. i + 1 \in n + 1..n + m /\ i - n < m /\ (i + 1) - n = (i - n) + 1
      BY <1>2, <2>3
    <3>2. /\ t[i].req = r /\ t[i].k = i - n /\ t[i + 1].req = r /\ t[i + 1].k = (i - n) + 1
      BY <1>4, <2>3, <3>1
    <3> QED
      BY <3>1, <3>2 DEF Place, After, m
  <2> QED
    BY <1>2, <1>6, <2>1, <2>2, <2>3
<1>11. Place(t[1]) = a
  <2>1. CASE s = <<>>
    <3>1. 1 \in n + 1..n + m /\ 1 - n = 1 /\ a = <<Len(reqs) + 1, 1>>
      BY <1>2, <2>1 DEF EndOf
    <3> QED
      BY <1>4, <3>1 DEF Place
  <2>2. CASE s # <<>>
    <3>1. 1 \in 1..n
      BY <1>2, <2>2
    <3> QED
      BY <1>1, <1>4, <2>2, <3>1 DEF Run
  <2> QED
    BY <2>1, <2>2
<1>12. t # <<>> /\ n + m \in n + 1..n + m /\ (n + m) - n = m
  BY <1>2, <1>3, Typed
<1>13. After(t[n + m]) = <<Len(more) + 1, 1>>
  <2>1. t[n + m].req = r /\ t[n + m].k = m
    BY <1>4, <1>12
  <2>2. After(t[n + m]) = <<r.n + 1, 1>>
    BY <1>2, <2>1 DEF After, m
  <2> QED
    BY <1>0, <2>2
<1>14. Run(more, t, a)
  BY <1>3, <1>7, <1>9, <1>10, <1>11 DEF Run
<1>15. EndOf(t, a) = <<Len(more) + 1, 1>>
  BY <1>3, <1>12, <1>13 DEF EndOf
<1> QED
  BY <1>3, <1>14, <1>15 DEF more, t

-----------------------------------------------------------------------------
(* What each step does to the flow of a connection.                            *)

LEMMA FlowSends ==
  ASSUME NEW reqs \in Seq(AllRequests), NEW r \in AllRequests, r.n = Len(reqs) + 1, NEW a,
         NEW x \in Seq(AllPieces), NEW w \in Seq(AllPieces), NEW u \in Seq(AllPieces),
         Flow(reqs, x, w, u, a)
  PROVE  u \o Pieces(r) \in Seq(AllPieces) /\ Flow(Append(reqs, r), x, w, u \o Pieces(r), a)
<1> DEFINE b == EndOf(x, a)  d == EndOf(w, b)
<1>1. Run(reqs, x, a) /\ Run(reqs, w, b) /\ Run(reqs, u, d) /\ EndOf(u, d) = <<Len(reqs) + 1, 1>>
  BY DEF Flow
<1> HIDE DEF b, d
<1>2. Run(Append(reqs, r), x, a) /\ Run(Append(reqs, r), w, b)
  BY <1>1, RunOfMore
<1>3. /\ u \o Pieces(r) \in Seq(AllPieces) /\ Run(Append(reqs, r), u \o Pieces(r), d)
      /\ EndOf(u \o Pieces(r), d) = <<Len(Append(reqs, r)) + 1, 1>>
  BY <1>1, RunOfNew
<1> QED
  BY <1>2, <1>3 DEF Flow, b, d

LEMMA FlowArrives ==
  ASSUME NEW reqs, NEW a, NEW x \in Seq(AllPieces), NEW w \in Seq(AllPieces),
         NEW u \in Seq(AllPieces), u # <<>>, Flow(reqs, x, w, u, a)
  PROVE  Flow(reqs, x, Append(w, Head(u)), Tail(u), a)
<1> DEFINE b == EndOf(x, a)  d == EndOf(w, b)  p == u[1]
<1>1. Run(reqs, x, a) /\ Run(reqs, w, b) /\ Run(reqs, u, d) /\ EndOf(u, d) = <<Len(reqs) + 1, 1>>
  BY DEF Flow
<1>2. 1 \in 1..Len(u) /\ Head(u) = p /\ p \in AllPieces
  BY Typed
<1>3. Tail(u) = SubSeq(u, 1 + 1, Len(u))
  BY TailIsSubSeq
<1> HIDE DEF b, d
<1>4. Run(reqs, Tail(u), After(p)) /\ EndOf(Tail(u), After(p)) = EndOf(u, d)
  <2>1. LET v == SubSeq(u, 1 + 1, Len(u))
        IN  Run(reqs, v, After(u[1])) /\ EndOf(v, After(u[1])) = EndOf(u, d)
    BY <1>1, <1>2, RunSplit
  <2> QED
    BY <1>3, <2>1
<1>5. /\ p.req.n \in 1..Len(reqs) /\ p.req = reqs[p.req.n] /\ p.k \in 1..Total(p.req) /\ Place(p) = d
  BY <1>1, <1>2 DEF Run
<1> HIDE DEF p
<1>6. Run(reqs, Append(w, p), b) /\ EndOf(Append(w, p), b) = After(p)
  BY <1>1, <1>2, <1>5, RunGrows DEF d
<1> QED
  BY <1>1, <1>2, <1>4, <1>6 DEF Flow, b

\* A read replaces what is in the buffer.
LEMMA FlowRead ==
  ASSUME NEW reqs, NEW a, NEW x, NEW w \in Seq(AllPieces), NEW u, Flow(reqs, x, w, u, a),
         NEW n \in 1..Len(w)
  PROVE  Flow(reqs, SubSeq(w, 1, n), SubSeq(w, n + 1, Len(w)), u, EndOf(x, a))
<1> DEFINE b == EndOf(x, a)
<1>1. /\ Run(reqs, w, b) /\ Run(reqs, u, EndOf(w, b)) /\ EndOf(u, EndOf(w, b)) = <<Len(reqs) + 1, 1>>
  BY DEF Flow
<1> HIDE DEF b
<1>2. LET t == SubSeq(w, 1, n)
          v == SubSeq(w, n + 1, Len(w))
      IN  /\ Run(reqs, t, b) /\ EndOf(t, b) = After(w[n])
          /\ Run(reqs, v, After(w[n])) /\ EndOf(v, After(w[n])) = EndOf(w, b)
  BY <1>1, RunSplit
<1> QED
  BY <1>1, <1>2 DEF Flow, b

\* The front of the buffer is taken out of it.
LEMMA FlowDrains ==
  ASSUME NEW reqs, NEW a, NEW x \in Seq(AllPieces), NEW w, NEW u, Flow(reqs, x, w, u, a),
         NEW n \in 1..Len(x)
  PROVE  Flow(reqs, SubSeq(x, n + 1, Len(x)), w, u, After(x[n]))
<1>1. /\ Run(reqs, x, a) /\ Run(reqs, w, EndOf(x, a)) /\ Run(reqs, u, EndOf(w, EndOf(x, a)))
      /\ EndOf(u, EndOf(w, EndOf(x, a))) = <<Len(reqs) + 1, 1>>
  BY DEF Flow
<1>2. LET v == SubSeq(x, n + 1, Len(x))
      IN  Run(reqs, v, After(x[n])) /\ EndOf(v, After(x[n])) = EndOf(x, a)
  BY <1>1, RunSplit
<1> QED
  BY <1>1, <1>2 DEF Flow

\* All of the buffer is taken out of it.
LEMMA FlowClears ==
  ASSUME NEW reqs, NEW a, NEW x, NEW w, NEW u, Flow(reqs, x, w, u, a)
  PROVE  Flow(reqs, <<>>, w, u, EndOf(x, a))
  BY RunOfNothing DEF Flow

\* Pieces are read past the empty buffer.
LEMMA FlowSkips ==
  ASSUME NEW reqs, NEW a, NEW w \in Seq(AllPieces), NEW u, Flow(reqs, <<>>, w, u, a), NEW n \in 1..Len(w)
  PROVE  Flow(reqs, <<>>, SubSeq(w, n + 1, Len(w)), u, After(w[n]))
<1>1. /\ Run(reqs, w, a) /\ Run(reqs, u, EndOf(w, a)) /\ EndOf(u, EndOf(w, a)) = <<Len(reqs) + 1, 1>>
  BY RunOfNothing DEF Flow
<1>2. LET v == SubSeq(w, n + 1, Len(w))
      IN  Run(reqs, v, After(w[n])) /\ EndOf(v, After(w[n])) = EndOf(w, a)
  BY <1>1, RunSplit, ZenonT(60)
<1> QED
  BY <1>1, <1>2, RunOfNothing DEF Flow

-----------------------------------------------------------------------------
(* A step of one connection leaves the others alone.                           *)

Unmoved(d) ==
    /\ conn'[d] = conn[d] /\ buffer'[d] = buffer[d] /\ cur'[d] = cur[d] /\ sent'[d] = sent[d]
    /\ unsent'[d] = unsent[d] /\ wire'[d] = wire[d] /\ answered'[d] = answered[d]

LEMMA UnmovedKeeps == ASSUME NEW d \in Conns, ConnOK(d), Unmoved(d) PROVE ConnOK(d)'
  BY DEF ConnOK, Answered, Reader, Serving, Stream, Turn, Unmoved

LEMMA LocalStep ==
  ASSUME IInv, NEW c \in Conns, Types', sent' = sent, ConnOK(c)',
         \A d \in Conns : d # c => Unmoved(d)
  PROVE  IInv'
<1>1. SentInv'
  BY DEF IInv, SentInv, Begun
<1>2. \A d \in Conns : ConnOK(d)'
  BY UnmovedKeeps DEF IInv
<1> QED
  BY <1>1, <1>2 DEF IInv

LEMMA TypesOf ==
  ASSUME Types, NEW c \in Conns
  PROVE  /\ buffer[c] \in Vec /\ buffer[c].data \in Seq(AllPieces)
         /\ buffer[c].cap \in {0, BUFFER_INITIAL_CAPACITY} /\ buffer[c].cap \in Nat
         /\ buffer[c] = [cap |-> buffer[c].cap, data |-> buffer[c].data]
         /\ wire[c] \in Seq(AllPieces) /\ unsent[c] \in Seq(AllPieces)
         /\ sent[c] \in Seq(AllRequests) /\ answered[c] \in Seq(Work)
         /\ cur[c] \in Work /\ cur[c].body \in Seq(AllPieces)
         /\ cur[c] = [req |-> cur[c].req, body |-> cur[c].body]
         /\ Len(buffer[c].data) \in Nat /\ Len(answered[c]) \in Nat /\ Len(sent[c]) \in Nat
         /\ Len(wire[c]) \in Nat
<1>1. /\ buffer[c] \in Vec /\ wire[c] \in Seq(AllPieces) /\ unsent[c] \in Seq(AllPieces)
      /\ sent[c] \in Seq(AllRequests) /\ answered[c] \in Seq(Work) /\ cur[c] \in Work
  BY DEF Types
<1>2. /\ buffer[c].data \in Seq(AllPieces) /\ buffer[c].cap \in {0, BUFFER_INITIAL_CAPACITY}
      /\ buffer[c] = [cap |-> buffer[c].cap, data |-> buffer[c].data]
  BY <1>1 DEF Vec
<1>3. cur[c].body \in Seq(AllPieces) /\ cur[c] = [req |-> cur[c].req, body |-> cur[c].body]
  BY <1>1 DEF Work
<1>4. buffer[c].cap \in Nat
  BY <1>2, ConnectionAssumption
<1> QED
  BY <1>1, <1>2, <1>3, <1>4

\* handle_connection_inner returns, whatever for.
LEMMA Returns ==
  ASSUME IInv, NEW c \in Conns, NEW why \in Reasons, NEW b \in Vec, Return(c, why, b),
         UNCHANGED <<sent, unsent, eof>>, wire' \in [Conns -> Seq(AllPieces)],
         answered' \in [Conns -> Seq(Work)], Answered(c)',
         \A d \in Conns : d # c => wire'[d] = wire[d] /\ answered'[d] = answered[d]
  PROVE  IInv'
<1>0. /\ conn' = [conn EXCEPT ![c] = "closed"] /\ reason' = [reason EXCEPT ![c] = why]
      /\ pool' = release_buffer(b) /\ buffer' = [buffer EXCEPT ![c] = Vec_new]
      /\ cur' = [cur EXCEPT ![c] = Nothing] /\ deadline' = [deadline EXCEPT ![c] = FALSE]
  BY DEF Return
<1>1. <<>> \in Seq(AllPieces)
  OBVIOUS
<1>2. Vec_new \in Vec /\ Vec_new.data = <<>> /\ Vec_new.cap = 0 /\ Nothing \in Work
  BY <1>1 DEF Vec_new, Vec, Nothing, Work
<1>3. /\ pool' \in Seq(Vec) /\ Len(pool') <= BUFFER_POOL_MAX_SIZE
      /\ \A i \in 1..Len(pool') : pool'[i].data = <<>>
  <2> DEFINE e == [b EXCEPT !.data = <<>>]
  <2>1. e \in Vec /\ e.data = <<>>
    BY <1>1 DEF Vec
  <2>2. pool \in Seq(Vec) /\ Len(pool) \in Nat /\ BUFFER_POOL_MAX_SIZE \in Nat
    BY ConnectionAssumption DEF IInv, Types
  <2> HIDE DEF e
  <2>3. CASE Len(pool) < BUFFER_POOL_MAX_SIZE
    <3>1. pool' = Append(pool, e)
      BY <1>0, <2>3 DEF release_buffer, e
    <3>2. /\ pool' \in Seq(Vec) /\ Len(pool') = Len(pool) + 1
          /\ \A i \in 1..Len(pool) : pool'[i] = pool[i]
          /\ pool'[Len(pool) + 1] = e
      BY <2>1, <2>2, <3>1, AppendProperties
    <3>3. \A i \in 1..Len(pool') : i \in 1..Len(pool) \/ i = Len(pool) + 1
      BY <2>2, <3>2
    <3>4. \A i \in 1..Len(pool) : pool[i].data = <<>>
      BY DEF IInv, Types
    <3>5. \A i \in 1..Len(pool') : pool'[i].data = <<>>
      BY <2>1, <3>2, <3>3, <3>4
    <3> QED
      BY <2>2, <2>3, <3>2, <3>5
  <2>4. CASE ~(Len(pool) < BUFFER_POOL_MAX_SIZE)
    BY <1>0, <2>4 DEF release_buffer, IInv, Types
  <2> QED
    BY <2>3, <2>4
<1>4. Types'
  BY <1>0, <1>2, <1>3 DEF IInv, Types
<1>5. conn'[c] = "closed" /\ buffer'[c].data = <<>> /\ buffer'[c].cap = 0
  BY <1>0, <1>2 DEF IInv, Types
<1>6. ConnOK(c)'
  <2>1. Reader(c)'
    BY <1>5 DEF Reader
  <2>2. Len(<<>>) = 0
    OBVIOUS
  <2> QED
    BY <1>5, <2>1, <2>2 DEF ConnOK
<1>7. \A d \in Conns : d # c => Unmoved(d)
  BY <1>0 DEF Unmoved, IInv, Types
<1> QED
  BY <1>4, <1>6, <1>7, LocalStep

LEMMA ReturnKeeps ==
  ASSUME IInv, NEW c \in Conns, NEW why \in Reasons, NEW b \in Vec, Return(c, why, b),
         UNCHANGED <<sent, unsent, eof, answered>>, wire' \in [Conns -> Seq(AllPieces)],
         \A d \in Conns : d # c => wire'[d] = wire[d]
  PROVE  IInv'
<1>1. answered' \in [Conns -> Seq(Work)] /\ \A d \in Conns : d # c => answered'[d] = answered[d]
  BY DEF IInv, Types
<1>2. Answered(c)'
  BY DEF IInv, ConnOK, Answered
<1> QED
  BY <1>1, <1>2, Returns

-----------------------------------------------------------------------------
(* The header loop.                                                           *)

LEMMA ReaderAtHeader ==
  ASSUME IInv, NEW c \in Conns, conn[c] = "parse"
  PROVE  LET x == buffer[c].data
         IN  /\ Stream(c, <<Turn(c), IF x = <<>> THEN 1 ELSE x[1].k>>)
             /\ x # <<>> => /\ x[1].req = sent[c][Turn(c)] /\ Turn(c) <= Len(sent[c])
                            /\ x[1].k <= x[1].req.shape.hdr /\ Head(x) = x[1]
                            /\ x[1].req \in AllRequests /\ x[1].k \in Nat \ {0}
                            /\ 1 \in 1..Len(x)
<1> DEFINE x == buffer[c].data
<1>0. Stream(c, <<Turn(c), IF x = <<>> THEN 1 ELSE x[1].k>>) /\ (x # <<>> => x[1].k <= x[1].req.shape.hdr)
  BY DEF IInv, ConnOK, Reader
<1>1. x \in Seq(AllPieces)
  BY TypesOf DEF IInv
<1> HIDE DEF x
<1>2. ASSUME x # <<>>
      PROVE  /\ x[1].req = sent[c][Turn(c)] /\ Turn(c) <= Len(sent[c]) /\ Head(x) = x[1]
             /\ x[1].req \in AllRequests /\ x[1].k \in Nat \ {0} /\ 1 \in 1..Len(x)
  <2>1. Run(sent[c], x, <<Turn(c), x[1].k>>)
    BY <1>0, <1>2 DEF Stream, Flow, x
  <2>2. 1 \in 1..Len(x) /\ Head(x) = x[1] /\ x[1].req \in AllRequests /\ x[1].k \in Nat
    BY <1>1, <1>2, Typed
  <2>3. /\ x[1].req.n \in 1..Len(sent[c]) /\ x[1].req = sent[c][x[1].req.n] /\ x[1].k \in 1..Total(x[1].req)
        /\ Place(x[1]) = <<Turn(c), x[1].k>>
    BY <1>2, <2>1, <2>2 DEF Run
  <2>4. x[1].req.n = Turn(c)
    BY <2>3 DEF Place
  <2>5. Len(sent[c]) \in Nat
    BY TypesOf DEF IInv
  <2> QED
    BY <2>2, <2>3, <2>4, <2>5, Sizes
<1> QED
  BY <1>0, <1>2 DEF x

\* Where the buffer holds no end of a header, the wire goes on within it.
LEMMA ReadingInHeader ==
  ASSUME IInv, NEW c \in Conns, Reading(c)
  PROVE  LET x == buffer[c].data
             a == <<Turn(c), IF x = <<>> THEN 1 ELSE x[1].k>>
         IN  \E k \in Nat \ {0} :
                /\ EndOf(x, a) = <<Turn(c), k>>
                /\ x # <<>> => k <= sent[c][Turn(c)].shape.hdr
                /\ x = <<>> => k = 1
<1> DEFINE x == buffer[c].data
           a == <<Turn(c), IF x = <<>> THEN 1 ELSE x[1].k>>
<1>0. x \in Seq(AllPieces) /\ conn[c] = "parse" /\ ~find_header_end(x)
  BY TypesOf DEF IInv, Reading
<1>1. CASE x = <<>>
  <2>1. EndOf(x, a) = <<Turn(c), 1>>
    BY <1>1 DEF EndOf
  <2> QED
    BY <1>1, <2>1
<1>2. CASE x # <<>>
  <2> DEFINE r == x[1].req  k0 == x[1].k  n == Len(x)
  <2>1. /\ Stream(c, a) /\ r = sent[c][Turn(c)] /\ k0 <= r.shape.hdr /\ r \in AllRequests
        /\ k0 \in Nat \ {0} /\ n \in Nat \ {0} /\ Turn(c) <= Len(sent[c])
    BY <1>0, <1>2, ReaderAtHeader, Typed
  <2>2. Run(sent[c], x, a)
    BY <2>1 DEF Stream, Flow
  <2>3. r.shape.hdr \in Nat \ {0} /\ Total(r) \in Nat /\ r.shape.hdr <= Total(r)
    BY <2>1, Sizes
  <2>4. \A i \in 1..n : ~(x[i].k = x[i].req.shape.hdr)
    <3>1. DOMAIN x = 1..Len(x)
      BY <1>0
    <3> QED
      BY <1>0, <3>1 DEF find_header_end, EndsHeader
  <2> HIDE DEF x, a
  <2>5. \A j \in 1..n : k0 + (j - 1) <= Total(r) => x[j].req = r /\ x[j].k = k0 + (j - 1)
    BY <1>0, <1>2, <2>2, RunInside
  <2> HIDE DEF r, k0, n
  <2>6. k0 + n - 1 < r.shape.hdr
    <3> SUFFICES ASSUME ~(k0 + n - 1 < r.shape.hdr) PROVE FALSE
      OBVIOUS
    <3> DEFINE h == r.shape.hdr  j == h - k0 + 1
    <3>0. h \in Nat /\ k0 \in Nat \ {0} /\ n \in Nat /\ k0 <= h /\ ~(k0 + n - 1 < h) /\ h <= Total(r)
      BY <2>1, <2>3
    <3> HIDE DEF h
    <3>1. j \in 1..n /\ k0 + (j - 1) = h /\ k0 + (j - 1) <= Total(r)
      BY <3>0
    <3> HIDE DEF j
    <3>2. x[j].req = r /\ x[j].k = r.shape.hdr
      BY <2>5, <3>1 DEF h
    <3> QED
      BY <2>4, <3>1, <3>2
  <2>7. n \in 1..n /\ k0 + (n - 1) <= Total(r) /\ k0 + (n - 1) < Total(r) /\ k0 + (n - 1) + 1 = k0 + n
    BY <2>1, <2>3, <2>6
  <2>8. x[n].req = r /\ x[n].k = k0 + (n - 1)
    BY <2>5, <2>7
  <2>9. EndOf(x, a) = <<r.n, k0 + n>>
    <3>1. EndOf(x, a) = After(x[n])
      BY <1>2 DEF EndOf, n
    <3> QED
      BY <2>7, <2>8, <3>1 DEF After
  <2>10. r.n = Turn(c)
    <3>1. x # <<>> => Place(x[1]) = a
      BY <2>2 DEF Run
    <3> QED
      BY <1>2, <3>1 DEF Place, r, a
  <2>11. k0 + n \in Nat \ {0} /\ k0 + n <= r.shape.hdr
    BY <2>1, <2>3, <2>6
  <2>12. EndOf(x, a) = <<Turn(c), k0 + n>> /\ k0 + n <= sent[c][Turn(c)].shape.hdr
    BY <2>1, <2>9, <2>10, <2>11
  <2> QED
    BY <1>2, <2>11, <2>12 DEF x, a
<1> QED
  BY <1>1, <1>2

\* A read returns n pieces: they are the only ones in the buffer afterwards.
LEMMA ReadKeeps == ASSUME IInv, NEW c \in Conns, Read(c) PROVE IInv'
<1>1. PICK n \in 1..Len(wire[c]) :
        LET got == [buffer[c] EXCEPT !.data = SubSeq(wire[c], 1, n)]
        IN  /\ n <= buffer[c].cap
            /\ wire' = [wire EXCEPT ![c] = SubSeq(wire[c], n + 1, Len(wire[c]))]
            /\ \/ deadline[c] /\ Return(c, "408", got)
               \/ n > max_header_bytes /\ Return(c, "431", got)
               \/ /\ n <= max_header_bytes
                  /\ buffer' = [buffer EXCEPT ![c] = got]
                  /\ deadline' = [deadline EXCEPT ![c] = TRUE]
                  /\ UNCHANGED <<pool, conn, cur, reason>>
  BY DEF Read
<1> DEFINE w == wire[c]
           t == SubSeq(w, 1, n)
           v == SubSeq(w, n + 1, Len(w))
           got == [buffer[c] EXCEPT !.data = t]
           x == buffer[c].data
           a == <<Turn(c), IF x = <<>> THEN 1 ELSE x[1].k>>
<1>2. Reading(c) /\ conn[c] = "parse" /\ UNCHANGED <<sent, unsent, eof, answered>>
  BY DEF Read, Reading
<1>3. Stream(c, a)
  BY <1>2, ReaderAtHeader
<1>4. w \in Seq(AllPieces) /\ x \in Seq(AllPieces)
  BY TypesOf DEF IInv
<1>5. Run(sent[c], w, EndOf(x, a))
  BY <1>3 DEF Stream, Flow
<1>6. /\ t \in Seq(AllPieces) /\ Len(t) = n /\ t # <<>> /\ v \in Seq(AllPieces)
      /\ \A i \in 1..n : t[i] = w[i]
      /\ Run(sent[c], t, EndOf(x, a))
  <2> DEFINE b == EndOf(x, a)
  <2>1. n \in 1..Len(w) /\ Run(sent[c], w, b)
    BY <1>5
  <2>2. w \in Seq(AllPieces)
    BY <1>4
  <2> HIDE DEF w, b
  <2>3. /\ t \in Seq(AllPieces) /\ Len(t) = n /\ t # <<>> /\ \A i \in 1..n : t[i] = w[i]
        /\ Run(sent[c], t, b) /\ EndOf(t, b) = After(w[n])
        /\ v \in Seq(AllPieces) /\ Len(v) = Len(w) - n
        /\ Run(sent[c], v, After(w[n])) /\ EndOf(v, After(w[n])) = EndOf(w, b)
    BY <2>1, <2>2, RunSplit, ZenonT(60)
  <2> QED
    BY <2>3 DEF b
<1>7. Flow(sent[c], t, v, unsent[c], EndOf(x, a))
  BY <1>3, <1>4, FlowRead DEF Stream
<1>8. PICK k \in Nat \ {0} : /\ EndOf(x, a) = <<Turn(c), k>>
                             /\ x # <<>> => k <= sent[c][Turn(c)].shape.hdr
                             /\ x = <<>> => k = 1
  BY <1>2, ReadingInHeader
<1> HIDE DEF a, x
<1>9. /\ t[1].k = k /\ t[1].req = sent[c][Turn(c)] /\ t[1].req \in AllRequests
  <2> HIDE DEF t
  <2>1. 1 \in 1..Len(t) /\ t[1].req \in AllRequests
    BY <1>6, Typed
  <2>2. /\ t[1].req.n \in 1..Len(sent[c]) /\ t[1].req = sent[c][t[1].req.n] /\ Place(t[1]) = <<Turn(c), k>>
    BY <1>6, <1>8, <2>1 DEF Run
  <2> QED
    BY <2>1, <2>2 DEF Place
<1>10. t[1].k <= t[1].req.shape.hdr
  BY <1>8, <1>9, Sizes, SMTT(30)
<1> HIDE DEF t, v
<1>11. got \in Vec /\ got.data = t /\ got.cap = buffer[c].cap
  BY <1>6, TypesOf DEF IInv, Vec
<1>12. /\ wire' \in [Conns -> Seq(AllPieces)] /\ wire'[c] = v
       /\ \A d \in Conns : d # c => wire'[d] = wire[d]
  BY <1>1, <1>6 DEF IInv, Types, t, v, w
<1>13. CASE Return(c, "408", got) \/ Return(c, "431", got)
  BY <1>2, <1>11, <1>12, <1>13, ReturnKeeps DEF Reasons
<1>14. CASE /\ buffer' = [buffer EXCEPT ![c] = got]
            /\ deadline' = [deadline EXCEPT ![c] = TRUE]
            /\ UNCHANGED <<pool, conn, cur, reason>>
  <2>1. Types'
    BY <1>2, <1>11, <1>12, <1>14 DEF IInv, Types
  <2>2. conn'[c] = "parse" /\ buffer'[c].data = t /\ buffer'[c].cap = buffer[c].cap /\ Turn(c)' = Turn(c)
    BY <1>2, <1>11, <1>14 DEF IInv, Types, Turn
  <2>3. Stream(c, <<Turn(c), k>>)'
    BY <1>2, <1>7, <1>8, <1>12, <2>2 DEF Stream
  <2>4. Reader(c)'
    BY <1>6, <1>9, <1>10, <2>2, <2>3 DEF Reader
  <2>5. Answered(c)'
    BY <1>2 DEF IInv, ConnOK, Answered
  <2>6. ConnOK(c)'
    BY <1>1, <1>6, <2>2, <2>4, <2>5 DEF ConnOK
  <2>7. \A d \in Conns : d # c => Unmoved(d)
    BY <1>2, <1>12, <1>14 DEF Unmoved, IInv, Types
  <2> QED
    BY <1>2, <2>1, <2>6, <2>7, LocalStep
<1> QED
  BY <1>1, <1>13, <1>14 DEF t, w

\* Every other way out of the loop.
LEMMA LeaveKeeps ==
  ASSUME IInv, NEW c \in Conns,
         \/ Malformed(c) \/ ReadZero(c) \/ ReadTimeout(c) \/ Reject(c) \/ BodyFails(c)
         \/ RespondFails(c) \/ UpgradeEnds(c)
  PROVE  IInv'
<1>1. Vec_new \in Vec
  BY DEF Vec_new, Vec
<1>2. buffer[c] \in Vec
  BY TypesOf DEF IInv
<1>3. PICK why \in Reasons, b \in {buffer[c], Vec_new} : Return(c, why, b)
  <2>1. \E why \in {"malformed", "eof", "timeout", "refused", "done"}, b \in {buffer[c], Vec_new} :
            Return(c, why, b)
    BY DEF Malformed, ReadZero, ReadTimeout, Reject, BodyFails, RespondFails, UpgradeEnds
  <2> QED
    BY <2>1 DEF Reasons
<1>4. UNCHANGED <<clientVars, answered>>
  BY DEF Malformed, ReadZero, ReadTimeout, Reject, BodyFails, RespondFails, UpgradeEnds
<1>5. UNCHANGED <<sent, unsent, eof, answered>> /\ wire' = wire
  BY <1>4 DEF clientVars
<1>6. wire' \in [Conns -> Seq(AllPieces)]
  BY <1>5 DEF IInv, Types
<1> QED
  BY <1>1, <1>2, <1>3, <1>5, <1>6, ReturnKeeps

-----------------------------------------------------------------------------
(* One request.                                                               *)

\* A sequence that holds the pieces of r's body is r's body.
LEMMA BodyIs ==
  ASSUME NEW r \in AllRequests, NEW b \in Seq(AllPieces), Len(b) = r.shape.body,
         \A i \in 1..Len(b) : b[i] = [req |-> r, k |-> r.shape.hdr + i]
  PROVE  b = Body(r)
<1> DEFINE h == r.shape.hdr  m == r.shape.body
<1>1. h \in Nat \ {0} /\ m \in Nat /\ Total(r) = h + m
  BY Sizes DEF Total
<1>2. Pieces(r) \in Seq(AllPieces) /\ Len(Pieces(r)) = h + m
      /\ \A k \in 1..h + m : Pieces(r)[k] = [req |-> r, k |-> k]
  BY <1>1, PiecesOf
<1> DEFINE q == Pieces(r)
<1> HIDE DEF h, m, q
<1>3. /\ SubSeq(q, h + 1, h + m) \in Seq(AllPieces) /\ Len(SubSeq(q, h + 1, h + m)) = (h + m) - (h + 1) + 1
      /\ \A i \in 1..((h + m) - (h + 1) + 1) :
            SubSeq(q, h + 1, h + m)[i] = q[(h + 1) + i - 1] /\ (h + 1) + i - 1 \in 1..Len(q)
  <2>1. h + 1 \in Nat \ {0} /\ h + m \in Nat /\ h + 1 <= h + m + 1 /\ h + m <= Len(q) /\ q \in Seq(AllPieces)
    BY <1>1, <1>2 DEF q
  <2> QED
    BY <2>1, PartOf
<1>4. (h + m) - (h + 1) + 1 = m /\ \A i \in 1..m : (h + 1) + i - 1 = h + i /\ h + i \in 1..h + m
  BY <1>1
<1>5. \A i \in 1..m : SubSeq(q, h + 1, h + m)[i] = [req |-> r, k |-> h + i]
  BY <1>2, <1>3, <1>4 DEF q
<1>6. \A i \in 1..m : b[i] = SubSeq(q, h + 1, h + m)[i]
  BY <1>5 DEF h, m
<1>7. b = SubSeq(q, h + 1, h + m)
  <2>1. Len(b) = Len(SubSeq(q, h + 1, h + m)) /\ Len(b) = m
    BY <1>3, <1>4 DEF m
  <2> DEFINE e == SubSeq(q, h + 1, h + m)
  <2>2. e \in Seq(AllPieces) /\ Len(b) = Len(e) /\ \A i \in 1..Len(b) : b[i] = e[i]
    BY <1>3, <1>6, <2>1
  <2> HIDE DEF e
  <2>3. b = e
    BY <2>2, SeqEqual
  <2> QED
    BY <2>3 DEF e
<1> QED
  BY <1>7 DEF Body, q, h, m

\* The buffer begins with the next request of its client.
LEMMA AtRequest ==
  ASSUME IInv, NEW c \in Conns, Parsed(c)
  PROVE  LET x == buffer[c].data
             r == Request(c)
         IN  /\ r \in AllRequests /\ r = sent[c][Turn(c)] /\ Turn(c) <= Len(sent[c]) /\ r.n = Turn(c)
             /\ x \in Seq(AllPieces) /\ x # <<>> /\ Len(x) \in Nat /\ r.shape.hdr <= Len(x)
             /\ \A j \in 1..Len(x) : j <= Total(r) => x[j] = [req |-> r, k |-> j]
             /\ Stream(c, <<Turn(c), 1>>)
<1> DEFINE x == buffer[c].data  r == Request(c)
<1>1. /\ conn[c] = "parse" /\ x # <<>> /\ x[1].k = 1 /\ Len(x) >= x[1].req.shape.hdr
  BY DEF Parsed, Parses
<1>2. x \in Seq(AllPieces) /\ Len(x) \in Nat
  BY TypesOf DEF IInv
<1>3. /\ Stream(c, <<Turn(c), 1>>) /\ x[1].req = sent[c][Turn(c)] /\ Turn(c) <= Len(sent[c])
      /\ Head(x) = x[1] /\ x[1].req \in AllRequests
  BY <1>1, ReaderAtHeader
<1>4. r = x[1].req
  BY <1>3 DEF Request
<1>5. Run(sent[c], x, <<Turn(c), 1>>)
  BY <1>3 DEF Stream, Flow
<1>6. Turn(c) \in 1..Len(sent[c])
  BY <1>3, TypesOf DEF IInv, Turn
<1>7. r.n = Turn(c)
  BY <1>3, <1>4, <1>6 DEF IInv, SentInv
<1>8. Total(r) \in Nat /\ r.shape.hdr \in Nat
  BY <1>3, <1>4, Sizes
<1> HIDE DEF x, r
<1>9. \A j \in 1..Len(x) : j <= Total(r) => x[j] = [req |-> r, k |-> j]
  <2> SUFFICES ASSUME NEW j \in 1..Len(x), j <= Total(r) PROVE x[j] = [req |-> r, k |-> j]
    OBVIOUS
  <2>1. x[1].k + (j - 1) = j
    BY <1>1, <1>2
  <2>2. x[j].req = r /\ x[j].k = j
    BY <1>1, <1>2, <1>4, <1>5, <2>1, RunInside
  <2>3. x[j] \in AllPieces /\ j \in Nat
    BY <1>2, Typed
  <2>4. [req |-> r, k |-> j] \in AllPieces
    BY <1>3, <1>4, <2>3 DEF AllPieces
  <2> QED
    BY <2>2, <2>3, <2>4, PieceEqual
<1> QED
  BY <1>1, <1>2, <1>3, <1>4, <1>7, <1>8, <1>9 DEF x, r

\* The pieces of the body that are in the buffer.
LEMMA BodyInBuffer ==
  ASSUME IInv, NEW c \in Conns, Parsed(c), NEW m \in Nat, Request(c).shape.hdr <= m,
         m <= Total(Request(c)), m <= Len(buffer[c].data)
  PROVE  LET h == Request(c).shape.hdr
             b == SubSeq(buffer[c].data, h + 1, m)
         IN  /\ b \in Seq(AllPieces) /\ Len(b) = m - h
             /\ \A i \in 1..Len(b) : b[i] = [req |-> Request(c), k |-> h + i]
<1> DEFINE x == buffer[c].data  r == Request(c)  h == r.shape.hdr  b == SubSeq(x, h + 1, m)
<1>1. /\ r \in AllRequests /\ x \in Seq(AllPieces) /\ Len(x) \in Nat
      /\ \A j \in 1..Len(x) : j <= Total(r) => x[j] = [req |-> r, k |-> j]
  BY AtRequest
<1>2. h \in Nat \ {0} /\ Total(r) \in Nat
  BY <1>1, Sizes
<1>3. h <= m /\ m <= Total(r) /\ m <= Len(x)
  OBVIOUS
<1> HIDE DEF x, r, h
<1>4. /\ b \in Seq(AllPieces) /\ Len(b) = m - (h + 1) + 1
      /\ \A i \in 1..(m - (h + 1) + 1) : b[i] = x[(h + 1) + i - 1] /\ (h + 1) + i - 1 \in 1..Len(x)
  <2>1. h + 1 \in Nat \ {0} /\ h + 1 <= m + 1
    BY <1>2, <1>3
  <2> QED
    BY <1>1, <1>3, <2>1, PartOf
<1>5. m - (h + 1) + 1 = m - h /\ \A i \in 1..(m - h) : (h + 1) + i - 1 = h + i /\ h + i <= Total(r)
  BY <1>2, <1>3
<1> HIDE DEF b
<1>6. Len(b) = m - h /\ \A i \in 1..(m - h) : b[i] = x[h + i] /\ h + i \in 1..Len(x)
  BY <1>4, <1>5
<1>7. \A i \in 1..Len(b) : b[i] = [req |-> r, k |-> h + i]
  BY <1>1, <1>5, <1>6
<1> QED
  BY <1>4, <1>6, <1>7 DEF b, x, r, h

LEMMA BodyBufferedKeeps == ASSUME IInv, NEW c \in Conns, BodyBuffered(c) PROVE IInv'
<1> DEFINE x == buffer[c].data  r == Request(c)  h == r.shape.hdr  m == r.shape.hdr + r.shape.body
           b == SubSeq(x, h + 1, m)
           rest == SubSeq(x, m + 1, Len(x))
<1>1. /\ Parsed(c) /\ r.shape.kind = "http" /\ Len(x) - h >= r.shape.body
      /\ Serve(c, b, drain_consumed_bytes(buffer[c], m))
  BY DEF BodyBuffered, Accepted, Content
<1>2. /\ r \in AllRequests /\ r = sent[c][Turn(c)] /\ Turn(c) <= Len(sent[c]) /\ r.n = Turn(c)
      /\ x \in Seq(AllPieces) /\ Len(x) \in Nat /\ h <= Len(x)
      /\ \A j \in 1..Len(x) : j <= Total(r) => x[j] = [req |-> r, k |-> j]
      /\ Stream(c, <<Turn(c), 1>>)
  BY <1>1, AtRequest
<1>3. h \in Nat \ {0} /\ r.shape.body \in Nat /\ m = Total(r)
  BY <1>2, Sizes DEF Total
<1>4. m \in 1..Len(x) /\ m \in Nat /\ h <= m
  <2> DEFINE e == r.shape.body  n == Len(x)
  <2>1. e \in Nat /\ n \in Nat /\ h \in Nat \ {0} /\ n - h >= e /\ m = h + e
    BY <1>1, <1>2, <1>3
  <2> HIDE DEF e, n, h, m
  <2>2. m \in 1..n /\ m \in Nat /\ h <= m
    BY <2>1
  <2> QED
    BY <2>2 DEF n
<1>5. b \in Seq(AllPieces) /\ Len(b) = m - h /\ \A i \in 1..Len(b) : b[i] = [req |-> r, k |-> h + i]
  BY <1>1, <1>3, <1>4, BodyInBuffer
<1>6. b = Body(r)
  <2>1. m - h = r.shape.body
    BY <1>3
  <2> HIDE DEF b, r, m
  <2> QED
    BY <1>2, <1>5, <2>1, BodyIs
<1>7. x[m] = [req |-> r, k |-> m] /\ After(x[m]) = <<Turn(c) + 1, 1>>
  <2>1. x[m] = [req |-> r, k |-> m]
    BY <1>2, <1>3, <1>4
  <2>2. x[m].k = m /\ x[m].req = r
    BY <2>1
  <2>3. ~(x[m].k < Total(x[m].req))
    BY <1>3, <1>4, <2>2
  <2> QED
    BY <1>2, <2>1, <2>2, <2>3 DEF After
<1>8. Flow(sent[c], rest, wire[c], unsent[c], <<Turn(c) + 1, 1>>)
  <2>1. Flow(sent[c], x, wire[c], unsent[c], <<Turn(c), 1>>)
    BY <1>2 DEF Stream
  <2> HIDE DEF x, m
  <2>2. Flow(sent[c], rest, wire[c], unsent[c], After(x[m]))
    BY <1>2, <1>4, <2>1, FlowDrains
  <2> QED
    BY <1>7, <2>2
<1>9. rest \in Seq(AllPieces) /\ Len(rest) <= Len(x)
  <2>1. m + 1 \in Nat \ {0} /\ m + 1 <= Len(x) + 1 /\ Len(x) <= Len(x)
    BY <1>2, <1>4
  <2> HIDE DEF x, m
  <2>2. rest \in Seq(AllPieces) /\ Len(rest) = Len(x) - (m + 1) + 1
    BY <1>2, <2>1, PartOf
  <2> QED
    BY <1>2, <1>4, <2>2
<1>10. /\ conn' = [conn EXCEPT ![c] = "respond"]
       /\ cur' = [cur EXCEPT ![c] = [req |-> r, body |-> b]]
       /\ buffer' = [buffer EXCEPT ![c] = [cap |-> buffer[c].cap, data |-> rest]]
       /\ deadline' = [deadline EXCEPT ![c] = FALSE]
       /\ UNCHANGED <<pool, clientVars, answered, reason>>
  <2>1. drain_consumed_bytes(buffer[c], m) = [cap |-> buffer[c].cap, data |-> rest]
    BY DEF drain_consumed_bytes
  <2> QED
    BY <1>1, <2>1 DEF Serve
<1>11. UNCHANGED <<pool, sent, unsent, wire, eof, answered, reason>>
  BY <1>10 DEF clientVars
<1> HIDE DEF b, rest, r, m, x, h
<1>12. [cap |-> buffer[c].cap, data |-> rest] \in Vec /\ [req |-> r, body |-> b] \in Work
  BY <1>2, <1>5, <1>9, TypesOf DEF IInv, Vec, Work
<1>13. Types'
  BY <1>10, <1>11, <1>12 DEF IInv, Types
<1>14. /\ conn'[c] = "respond" /\ cur'[c].req = r /\ cur'[c].body = b /\ buffer'[c].data = rest
       /\ buffer'[c].cap = buffer[c].cap /\ Turn(c)' = Turn(c)
  BY <1>10, <1>11 DEF IInv, Types, Turn
<1>15. Reader(c)'
  <2>1. Serving(c)'
    BY <1>1, <1>2, <1>11, <1>14 DEF Serving
  <2>2. Stream(c, <<Turn(c) + 1, 1>>)'
    BY <1>8, <1>11, <1>14 DEF Stream
  <2> QED
    BY <1>6, <1>14, <2>1, <2>2 DEF Reader
<1>16. ConnOK(c)'
  <2>1. Answered(c)'
    BY <1>11 DEF IInv, ConnOK, Answered
  <2>2. Len(x) <= buffer[c].cap /\ buffer[c].cap \in Nat
    BY TypesOf DEF IInv, ConnOK, x
  <2>3. Len(rest) \in Nat
    BY <1>9
  <2> QED
    BY <1>2, <1>9, <1>14, <1>15, <2>1, <2>2, <2>3 DEF ConnOK
<1>17. \A d \in Conns : d # c => Unmoved(d)
  BY <1>10, <1>11 DEF Unmoved, IInv, Types
<1> QED
  BY <1>11, <1>13, <1>16, <1>17, LocalStep

LEMMA BodyPartialKeeps == ASSUME IInv, NEW c \in Conns, BodyPartial(c) PROVE IInv'
<1> DEFINE x == buffer[c].data  r == Request(c)  h == r.shape.hdr  n == Len(x)
           b == SubSeq(x, h + 1, n)
           v == [buffer[c] EXCEPT !.data = <<>>]
<1>1. /\ Parsed(c) /\ r.shape.kind = "http" /\ n - h < r.shape.body
      /\ conn' = [conn EXCEPT ![c] = "body"]
      /\ cur' = [cur EXCEPT ![c] = [req |-> r, body |-> b]]
      /\ buffer' = [buffer EXCEPT ![c] = v]
      /\ deadline' = [deadline EXCEPT ![c] = FALSE]
      /\ UNCHANGED <<pool, sent, unsent, wire, eof, answered, reason>>
  BY DEF BodyPartial, Accepted, Content, clientVars
<1>2. /\ r \in AllRequests /\ r = sent[c][Turn(c)] /\ Turn(c) <= Len(sent[c]) /\ r.n = Turn(c)
      /\ x \in Seq(AllPieces) /\ n \in Nat /\ h <= n /\ x # <<>>
      /\ \A j \in 1..n : j <= Total(r) => x[j] = [req |-> r, k |-> j]
      /\ Stream(c, <<Turn(c), 1>>)
  BY <1>1, AtRequest
<1>3. h \in Nat \ {0} /\ r.shape.body \in Nat /\ Total(r) = h + r.shape.body
  BY <1>2, Sizes DEF Total
<1>4. n \in 1..n /\ n < Total(r) /\ n <= Total(r)
  <2> DEFINE e == r.shape.body
  <2>1. e \in Nat /\ n \in Nat /\ h \in Nat \ {0} /\ n - h < e /\ Total(r) = h + e /\ h <= n
    BY <1>1, <1>2, <1>3
  <2> HIDE DEF e, n, h
  <2> QED
    BY <2>1
<1>5. b \in Seq(AllPieces) /\ Len(b) = n - h /\ \A i \in 1..Len(b) : b[i] = [req |-> r, k |-> h + i]
  <2>1. Parsed(c) /\ n \in Nat /\ h <= n /\ n <= Total(r) /\ n <= Len(x)
    BY <1>1, <1>2, <1>4
  <2> HIDE DEF n
  <2> QED
    BY <2>1, BodyInBuffer
<1>6. v \in Vec /\ v.data = <<>> /\ v.cap = buffer[c].cap
  <2>1. buffer[c] \in Vec
    BY TypesOf DEF IInv
  <2>2. <<>> \in Seq(AllPieces)
    OBVIOUS
  <2> QED
    BY <2>1, <2>2 DEF Vec
<1>7. EndOf(x, <<Turn(c), 1>>) = <<Turn(c), n + 1>>
  <2>0. x[n] = [req |-> r, k |-> n]
    BY <1>2, <1>4
  <2>1. x[n].req = r /\ x[n].k = n
    BY <2>0
  <2>2. EndOf(x, <<Turn(c), 1>>) = After(x[n])
    BY <1>2 DEF EndOf
  <2> QED
    BY <1>2, <1>4, <2>1, <2>2 DEF After
<1> HIDE DEF b, r, x, h, n, v
<1>8. Flow(sent[c], <<>>, wire[c], unsent[c], <<Turn(c), n + 1>>)
  <2>1. Flow(sent[c], x, wire[c], unsent[c], <<Turn(c), 1>>)
    BY <1>2 DEF Stream, x
  <2> QED
    BY <1>7, <2>1, FlowClears
<1>9. Types'
  <2>1. [req |-> r, body |-> b] \in Work
    BY <1>2, <1>5 DEF Work
  <2> QED
    BY <1>1, <1>6, <2>1 DEF IInv, Types
<1>10. /\ conn'[c] = "body" /\ cur'[c].req = r /\ cur'[c].body = b /\ buffer'[c].data = <<>>
       /\ buffer'[c].cap = buffer[c].cap /\ Turn(c)' = Turn(c)
  BY <1>1, <1>6 DEF IInv, Types, Turn
<1>11. Reader(c)'
  <2>1. Serving(c)'
    BY <1>1, <1>2, <1>10 DEF Serving
  <2>2. h + Len(b) + 1 = n + 1 /\ Len(b) < r.shape.body
    BY <1>1, <1>2, <1>3, <1>5
  <2>4. Stream(c, <<Turn(c), cur[c].req.shape.hdr + Len(cur[c].body) + 1>>)'
    BY <1>8, <1>1, <1>10, <2>2 DEF Stream, h
  <2> QED
    BY <1>5, <1>10, <2>1, <2>2, <2>4 DEF Reader, h
<1>12. ConnOK(c)'
  <2>1. Answered(c)'
    BY <1>1 DEF IInv, ConnOK, Answered
  <2>2. Len(<<>>) = 0 /\ buffer[c].cap \in Nat
    BY TypesOf DEF IInv
  <2> QED
    BY <1>10, <1>11, <2>1, <2>2 DEF ConnOK
<1>13. \A d \in Conns : d # c => Unmoved(d)
  BY <1>1 DEF Unmoved, IInv, Types
<1> QED
  BY <1>1, <1>9, <1>12, <1>13, LocalStep

\* A body read takes no more than what is missing of the body.
LEMMA BodyReadKeeps == ASSUME IInv, NEW c \in Conns, BodyRead(c) PROVE IInv'
<1> DEFINE w == wire[c]  r == cur[c].req  h == r.shape.hdr  m == r.shape.body
           b == cur[c].body  l == Len(b)  a == <<Turn(c), h + l + 1>>
<1>1. PICK n \in 1..(m - l) :
        /\ n <= Len(w)
        /\ cur' = [cur EXCEPT ![c] = [cur[c] EXCEPT !.body = b \o SubSeq(w, 1, n)]]
        /\ wire' = [wire EXCEPT ![c] = SubSeq(w, n + 1, Len(w))]
        /\ conn' = [conn EXCEPT ![c] = IF Len(b \o SubSeq(w, 1, n)) >= m THEN "respond" ELSE conn[c]]
  BY DEF BodyRead
<1> DEFINE t == SubSeq(w, 1, n)
           u == SubSeq(w, n + 1, Len(w))
           e == b \o t
<1>2. conn[c] = "body" /\ UNCHANGED <<pool, buffer, deadline, sent, unsent, eof, answered, reason>>
  BY DEF BodyRead
<1>3. /\ Serving(c) /\ buffer[c].data = <<>> /\ l < m /\ Stream(c, a)
      /\ \A i \in 1..l : b[i] = [req |-> r, k |-> h + i]
  BY <1>2 DEF IInv, ConnOK, Reader
<1>4. /\ w \in Seq(AllPieces) /\ b \in Seq(AllPieces) /\ l \in Nat /\ Len(w) \in Nat
      /\ Turn(c) \in 1..Len(sent[c])
  <2>1. w \in Seq(AllPieces) /\ b \in Seq(AllPieces) /\ Len(answered[c]) \in Nat /\ Len(sent[c]) \in Nat
    BY TypesOf DEF IInv
  <2>2. Turn(c) \in 1..Len(sent[c])
    BY <1>3, <2>1 DEF Serving, Turn
  <2> QED
    BY <2>1, <2>2
<1>5. r \in AllRequests /\ r = sent[c][Turn(c)] /\ r.n = Turn(c)
  <2>1. sent[c] \in Seq(AllRequests)
    BY TypesOf DEF IInv
  <2>2. r = sent[c][Turn(c)]
    BY <1>3 DEF Serving
  <2> HIDE DEF r
  <2>3. r \in AllRequests
    BY <1>4, <2>1, <2>2, ElementOfSeq
  <2> QED
    BY <1>4, <2>2, <2>3 DEF IInv, SentInv
<1>6. h \in Nat \ {0} /\ m \in Nat /\ Total(r) = h + m
  BY <1>5, Sizes DEF Total
<1>7. n \in 1..Len(w) /\ n \in Nat \ {0} /\ l + n <= m /\ Len(w) >= 1
  <2> HIDE DEF m, l, w
  <2> QED
    BY <1>1, <1>4, <1>6
<1>8. Flow(sent[c], <<>>, w, unsent[c], a)
  BY <1>3 DEF Stream
<1>9. Run(sent[c], w, a)
  BY <1>8, RunOfNothing DEF Flow
<1> HIDE DEF w, r, h, m, b, l, a
<1>10. w # <<>> /\ 1 \in 1..Len(w)
  BY <1>4, <1>7
<1>11. w[1].k = h + l + 1 /\ w[1].req = r
  <2>1. Place(w[1]) = a /\ w[1].req = sent[c][w[1].req.n]
    BY <1>9, <1>10 DEF Run
  <2>2. w[1].req.n = Turn(c) /\ w[1].k = h + l + 1
    BY <2>1 DEF Place, a
  <2> QED
    BY <1>5, <2>1, <2>2
<1>12. \A j \in 1..n : w[j] = [req |-> r, k |-> h + l + j]
  <2> SUFFICES ASSUME NEW j \in 1..n PROVE w[j] = [req |-> r, k |-> h + l + j]
    OBVIOUS
  <2>1. j \in 1..Len(w) /\ j \in Nat /\ h + l + 1 + (j - 1) = h + l + j /\ h + l + j <= Total(r) /\ h + l + j \in Nat
    BY <1>4, <1>6, <1>7
  <2>2. w[j].req = r /\ w[j].k = h + l + j
    BY <1>4, <1>9, <1>10, <1>11, <2>1, RunInside
  <2>3. w[j] \in AllPieces
    BY <1>4, <2>1, Typed
  <2>4. [req |-> r, k |-> h + l + j] \in AllPieces
    BY <1>5, <2>1 DEF AllPieces
  <2> QED
    BY <2>2, <2>3, <2>4, PieceEqual
<1>13. /\ t \in Seq(AllPieces) /\ Len(t) = n /\ (\A i \in 1..n : t[i] = w[i]) /\ u \in Seq(AllPieces)
  <2>1. w \in Seq(AllPieces) /\ n \in 1..Len(w)
    BY <1>4, <1>7
  <2>2. /\ t \in Seq(AllPieces) /\ Len(t) = n /\ t # <<>> /\ \A i \in 1..n : t[i] = w[i]
        /\ Run(sent[c], t, a) /\ EndOf(t, a) = After(w[n])
        /\ u \in Seq(AllPieces) /\ Len(u) = Len(w) - n
        /\ Run(sent[c], u, After(w[n])) /\ EndOf(u, After(w[n])) = EndOf(w, a)
    BY <1>9, <2>1, RunSplit, ZenonT(60)
  <2> QED
    BY <2>2
<1>14. Flow(sent[c], <<>>, u, unsent[c], After(w[n]))
  BY <1>4, <1>7, <1>8, FlowSkips
<1> HIDE DEF t, u
<1>15. /\ e \in Seq(AllPieces) /\ Len(e) = l + n
       /\ \A i \in 1..Len(e) : e[i] = [req |-> r, k |-> h + i]
  <2>1. /\ e \in Seq(AllPieces) /\ Len(e) = Len(b) + Len(t)
        /\ \A i \in 1..Len(b) + Len(t) : e[i] = IF i <= Len(b) THEN b[i] ELSE t[i - Len(b)]
    BY <1>4, <1>13, ConcatProperties
  <2> HIDE DEF e
  <2>2. Len(e) = l + n /\ \A i \in 1..l + n : e[i] = IF i <= l THEN b[i] ELSE t[i - l]
    BY <1>13, <2>1 DEF l
  <2>3. \A i \in 1..l + n : i <= l => i \in 1..l
    BY <1>4
  <2>4. \A i \in 1..l + n : ~(i <= l) => i - l \in 1..n /\ h + l + (i - l) = h + i
    BY <1>4, <1>6, <1>7
  <2>5. ASSUME NEW i \in 1..l + n PROVE e[i] = [req |-> r, k |-> h + i]
    <3>1. CASE i <= l
      BY <1>3, <2>2, <2>3, <2>5, <3>1 DEF b, r, h, l
    <3>2. CASE ~(i <= l)
      BY <1>12, <1>13, <2>2, <2>4, <2>5, <3>2
    <3> QED
      BY <3>1, <3>2
  <2> QED
    BY <2>1, <2>2, <2>5
<1>16. After(w[n]) = IF l + n < m THEN <<Turn(c), h + (l + n) + 1>> ELSE <<Turn(c) + 1, 1>>
  <2>0. w[n] = [req |-> r, k |-> h + l + n]
    BY <1>7, <1>12
  <2>1. w[n].req = r /\ w[n].k = h + l + n
    BY <2>0
  <2>2. h + l + n < Total(r) <=> l + n < m
    BY <1>4, <1>6, <1>7
  <2>3. h + l + n + 1 = h + (l + n) + 1
    BY <1>4, <1>6, <1>7
  <2> QED
    BY <1>5, <2>1, <2>2, <2>3 DEF After
<1> HIDE DEF e
<1>17. /\ cur' = [cur EXCEPT ![c] = [req |-> r, body |-> e]]
       /\ wire' = [wire EXCEPT ![c] = u]
       /\ conn' = [conn EXCEPT ![c] = IF Len(e) >= m THEN "respond" ELSE "body"]
  <2>1. [cur[c] EXCEPT !.body = e] = [req |-> r, body |-> e]
    <3>1. cur[c] = [req |-> r, body |-> b]
      BY TypesOf DEF IInv, r, b
    <3> QED
      BY <3>1
  <2> QED
    BY <1>1, <1>2, <2>1 DEF t, u, w, e, b, m, r
<1>18. Types'
  <2>1. [req |-> r, body |-> e] \in Work
    BY <1>5, <1>15 DEF Work
  <2> QED
    BY <1>2, <1>13, <1>17, <2>1 DEF IInv, Types
<1>19. /\ cur'[c].req = r /\ cur'[c].body = e /\ wire'[c] = u /\ buffer'[c].data = <<>> /\ Turn(c)' = Turn(c)
       /\ conn'[c] = IF Len(e) >= m THEN "respond" ELSE "body"
  BY <1>2, <1>3, <1>17 DEF IInv, Types, Turn
<1>20. Serving(c)'
  BY <1>2, <1>3, <1>19 DEF Serving, r
<1>21. Reader(c)'
  <2>1. CASE l + n < m
    <3>1. conn'[c] = "body" /\ Len(e) < m
      BY <1>4, <1>6, <1>7, <1>15, <1>19, <2>1
    <3>2. Stream(c, <<Turn(c), cur[c].req.shape.hdr + Len(cur[c].body) + 1>>)'
      BY <1>2, <1>14, <1>15, <1>16, <1>19, <2>1 DEF Stream, h
    <3> QED
      BY <1>15, <1>19, <1>20, <3>1, <3>2 DEF Reader, h, m
  <2>2. CASE l + n = m
    <3>1. conn'[c] = "respond" /\ Len(e) = m /\ ~(l + n < m)
      BY <1>4, <1>6, <1>7, <1>15, <1>19, <2>2
    <3>2. e = Body(r)
      BY <1>5, <1>15, <3>1, BodyIs DEF h, m
    <3>3. Stream(c, <<Turn(c) + 1, 1>>)'
      BY <1>2, <1>14, <1>16, <1>19, <3>1 DEF Stream
    <3> QED
      BY <1>19, <1>20, <3>1, <3>2, <3>3 DEF Reader
  <2> QED
    BY <1>4, <1>6, <1>7, <2>1, <2>2
<1>22. ConnOK(c)'
  <2>1. Answered(c)'
    BY <1>2 DEF IInv, ConnOK, Answered
  <2> QED
    BY <1>2, <1>21, <2>1 DEF IInv, ConnOK
<1>23. \A d \in Conns : d # c => Unmoved(d)
  BY <1>2, <1>17 DEF Unmoved, IInv, Types
<1> QED
  BY <1>2, <1>18, <1>22, <1>23, LocalStep

\* A handler has been given the next request, as it was sent.
LEMMA AnswerAdded ==
  ASSUME IInv, NEW c \in Conns, NEW e \in Work, Turn(c) <= Len(sent[c]), sent' = sent,
         e = [req |-> sent[c][Turn(c)], body |-> Given(sent[c][Turn(c)])],
         answered' = [answered EXCEPT ![c] = Append(answered[c], e)]
  PROVE  /\ answered' \in [Conns -> Seq(Work)] /\ Answered(c)' /\ Turn(c)' = Turn(c) + 1
         /\ \A d \in Conns : d # c => answered'[d] = answered[d]
<1> DEFINE s == answered[c]  t == Append(s, e)
<1>1. s \in Seq(Work) /\ Len(s) \in Nat
  BY TypesOf DEF IInv
<1>2. /\ t \in Seq(Work) /\ Len(t) = Len(s) + 1
      /\ (\A i \in 1..Len(s) : t[i] = s[i]) /\ t[Len(s) + 1] = e
  BY <1>1, AppendProperties
<1>3. answered \in [Conns -> Seq(Work)]
  BY DEF IInv, Types
<1> HIDE DEF t
<1>4. /\ answered' \in [Conns -> Seq(Work)] /\ answered'[c] = t
      /\ \A d \in Conns : d # c => answered'[d] = answered[d]
  BY <1>2, <1>3 DEF t
<1>5. \A i \in 1..Len(t) : i \in 1..Len(s) \/ i = Turn(c)
  BY <1>1, <1>2 DEF Turn
<1>6. \A i \in 1..Len(t) : i <= Len(sent[c]) /\ t[i] = [req |-> sent[c][i], body |-> Given(sent[c][i])]
  BY <1>2, <1>5 DEF IInv, ConnOK, Answered, Turn
<1>7. Answered(c)'
  BY <1>4, <1>6 DEF Answered
<1> QED
  BY <1>2, <1>4, <1>7 DEF Turn

LEMMA RespondKeeps == ASSUME IInv, NEW c \in Conns, Respond(c) PROVE IInv'
<1>1. /\ conn[c] = "respond" /\ answered' = [answered EXCEPT ![c] = Append(answered[c], cur[c])]
      /\ UNCHANGED <<sent, unsent, wire, eof>>
  BY DEF Respond, clientVars
<1>2. Serving(c) /\ cur[c].body = Body(cur[c].req) /\ Stream(c, <<Turn(c) + 1, 1>>)
  BY <1>1 DEF IInv, ConnOK, Reader
<1>3. cur[c] \in Work /\ cur[c] = [req |-> cur[c].req, body |-> cur[c].body] /\ buffer[c] \in Vec
  BY TypesOf DEF IInv
<1>4. Turn(c) <= Len(sent[c]) /\ cur[c] = [req |-> sent[c][Turn(c)], body |-> Given(sent[c][Turn(c)])]
  <2>1. cur[c].req = sent[c][Turn(c)] /\ Given(cur[c].req) = cur[c].body /\ Turn(c) <= Len(sent[c])
    BY <1>2 DEF Serving, Given
  <2> QED
    BY <1>3, <2>1
<1>5. /\ answered' \in [Conns -> Seq(Work)] /\ Answered(c)' /\ Turn(c)' = Turn(c) + 1
      /\ \A d \in Conns : d # c => answered'[d] = answered[d]
  BY <1>1, <1>3, <1>4, AnswerAdded
<1>6. CASE Return(c, "done", buffer[c])
  <2>1. wire' \in [Conns -> Seq(AllPieces)] /\ "done" \in Reasons
    BY <1>1 DEF IInv, Types, Reasons
  <2> QED
    BY <1>1, <1>3, <1>5, <1>6, <2>1, Returns
<1>7. CASE /\ conn' = [conn EXCEPT ![c] = "parse"] /\ cur' = [cur EXCEPT ![c] = Nothing]
           /\ UNCHANGED <<pool, buffer, deadline, reason>>
  <2>1. Nothing \in Work
    <3>1. <<>> \in Seq(AllPieces)
      OBVIOUS
    <3> QED
      BY <3>1 DEF Nothing, Work
  <2>2. Types'
    BY <1>1, <1>5, <1>7, <2>1 DEF IInv, Types
  <2>3. conn'[c] = "parse" /\ buffer'[c] = buffer[c]
    BY <1>7 DEF IInv, Types
  <2> DEFINE x == buffer[c].data
  <2>4. x \in Seq(AllPieces)
    BY TypesOf DEF IInv
  <2>5. Flow(sent[c], x, wire[c], unsent[c], <<Turn(c) + 1, 1>>)
    BY <1>2 DEF Stream
  <2> HIDE DEF x
  <2>6. x # <<>> => x[1].k = 1 /\ x[1].k <= x[1].req.shape.hdr
    <3> SUFFICES ASSUME x # <<>> PROVE x[1].k = 1 /\ x[1].k <= x[1].req.shape.hdr
      OBVIOUS
    <3>1. Place(x[1]) = <<Turn(c) + 1, 1>>
      BY <2>5 DEF Flow, Run
    <3>2. x[1].k = 1
      BY <3>1 DEF Place
    <3>3. 1 \in 1..Len(x) /\ x[1].req \in AllRequests
      BY <2>4, Typed
    <3>4. x[1].req.shape.hdr \in Nat \ {0}
      BY <3>3, Sizes
    <3> QED
      BY <3>2, <3>4
  <2>7. Stream(c, <<Turn(c), IF buffer[c].data = <<>> THEN 1 ELSE buffer[c].data[1].k>>)'
    <3>1. (IF x = <<>> THEN 1 ELSE x[1].k) = 1
      BY <2>6
    <3> QED
      BY <1>1, <1>5, <2>3, <2>5, <3>1 DEF Stream, x
  <2>8. Reader(c)'
    BY <2>3, <2>6, <2>7 DEF Reader, x
  <2>9. ConnOK(c)'
    BY <1>5, <2>3, <2>8 DEF IInv, ConnOK
  <2>10. \A d \in Conns : d # c => Unmoved(d)
    BY <1>1, <1>5, <1>7 DEF Unmoved, IInv, Types
  <2> QED
    BY <1>1, <2>2, <2>9, <2>10, LocalStep
<1> QED
  BY <1>6, <1>7 DEF Respond

LEMMA UpgradeKeeps == ASSUME IInv, NEW c \in Conns, Upgrade(c) PROVE IInv'
<1> DEFINE r == Request(c)  e == [req |-> r, body |-> <<>>]
           v == [buffer[c] EXCEPT !.data = <<>>]
<1>1. /\ Parsed(c) /\ r.shape.kind = "ws" /\ conn' = [conn EXCEPT ![c] = "ws"]
      /\ answered' = [answered EXCEPT ![c] = Append(answered[c], e)]
      /\ buffer' = [buffer EXCEPT ![c] = v] /\ deadline' = [deadline EXCEPT ![c] = FALSE]
      /\ UNCHANGED <<pool, cur, sent, unsent, wire, eof, reason>>
  BY DEF Upgrade, Accepted, clientVars
<1>2. r \in AllRequests /\ r = sent[c][Turn(c)] /\ Turn(c) <= Len(sent[c])
  BY <1>1, AtRequest
<1>3. <<>> \in Seq(AllPieces)
  OBVIOUS
<1>4. e \in Work /\ e = [req |-> sent[c][Turn(c)], body |-> Given(sent[c][Turn(c)])]
  <2>1. Given(r) = <<>>
    BY <1>1 DEF Given
  <2> HIDE DEF r
  <2> QED
    BY <1>2, <1>3, <2>1 DEF Work
<1>5. v \in Vec /\ v.data = <<>> /\ v.cap = buffer[c].cap
  <2>1. buffer[c] \in Vec
    BY TypesOf DEF IInv
  <2> QED
    BY <1>3, <2>1 DEF Vec
<1> HIDE DEF r, e, v
<1>6. /\ answered' \in [Conns -> Seq(Work)] /\ Answered(c)'
      /\ \A d \in Conns : d # c => answered'[d] = answered[d]
  BY <1>1, <1>2, <1>4, AnswerAdded
<1>7. Types'
  BY <1>1, <1>5, <1>6 DEF IInv, Types
<1>8. conn'[c] = "ws" /\ buffer'[c].data = <<>> /\ buffer'[c].cap = buffer[c].cap
  BY <1>1, <1>5 DEF IInv, Types
<1>9. ConnOK(c)'
  <2>1. Reader(c)'
    BY <1>8 DEF Reader
  <2>2. Len(<<>>) = 0
    OBVIOUS
  <2>3. buffer[c].cap \in Nat
    BY TypesOf DEF IInv
  <2> QED
    BY <1>6, <1>8, <2>1, <2>2, <2>3 DEF ConnOK
<1>10. \A d \in Conns : d # c => Unmoved(d)
  BY <1>1, <1>6 DEF Unmoved, IInv, Types
<1> QED
  BY <1>1, <1>7, <1>9, <1>10, LocalStep

-----------------------------------------------------------------------------
(* The pool, and the client.                                                  *)

LEMMA AcquireKeeps == ASSUME IInv, NEW c \in Conns, acquire_buffer(c) PROVE IInv'
<1>1. /\ conn[c] = "none" /\ conn' = [conn EXCEPT ![c] = "parse"]
      /\ UNCHANGED <<deadline, cur, sent, unsent, wire, eof, answered, reason>>
  BY DEF acquire_buffer, clientVars
<1>2. pool \in Seq(Vec) /\ Len(pool) \in Nat /\ BUFFER_POOL_MAX_SIZE \in Nat /\ Len(pool) <= BUFFER_POOL_MAX_SIZE
  BY ConnectionAssumption DEF IInv, Types
<1>3. PICK b \in Vec : /\ b.data = <<>> /\ buffer' = [buffer EXCEPT ![c] = b]
                       /\ pool' \in Seq(Vec) /\ Len(pool') <= BUFFER_POOL_MAX_SIZE
                       /\ \A i \in 1..Len(pool') : pool'[i].data = <<>>
  <2>1. CASE pool # <<>>
    <3>1. buffer' = [buffer EXCEPT ![c] = Last(pool)] /\ pool' = Front(pool)
      BY <2>1 DEF acquire_buffer
    <3>2. Len(pool) \in 1..Len(pool)
      BY <1>2, <2>1, EmptySeq
    <3>3. Last(pool) = pool[Len(pool)] /\ pool[Len(pool)] \in Vec
      BY <1>2, <3>2, ElementOfSeq DEF Last
    <3>4. Last(pool).data = <<>>
      BY <3>2, <3>3 DEF IInv, Types
    <3>5. /\ Front(pool) \in Seq(Vec) /\ Len(Front(pool)) = Len(pool) - 1
          /\ \A i \in 1..Len(pool) - 1 : Front(pool)[i] = pool[i]
      <4> DEFINE n == Len(pool) - 1
      <4>1. n \in Nat /\ 1 <= n + 1 /\ n <= Len(pool) /\ n - 1 + 1 = n
        BY <1>2, <3>2
      <4> HIDE DEF n
      <4>2. /\ SubSeq(pool, 1, n) \in Seq(Vec) /\ Len(SubSeq(pool, 1, n)) = n - 1 + 1
            /\ \A i \in 1..(n - 1 + 1) : SubSeq(pool, 1, n)[i] = pool[1 + i - 1]
        BY <1>2, <4>1, PartOf
      <4>3. \A i \in 1..n : 1 + i - 1 = i
        BY <4>1
      <4>4. /\ SubSeq(pool, 1, n) \in Seq(Vec) /\ Len(SubSeq(pool, 1, n)) = n
            /\ \A i \in 1..n : SubSeq(pool, 1, n)[i] = pool[i]
        BY <4>1, <4>2, <4>3
      <4> QED
        BY <4>4 DEF Front, n
    <3>6. \A i \in 1..Len(pool) - 1 : i \in 1..Len(pool)
      BY <1>2
    <3>7. \A i \in 1..Len(pool) - 1 : Front(pool)[i].data = <<>>
      BY <3>5, <3>6 DEF IInv, Types
    <3>8. Len(pool) - 1 <= BUFFER_POOL_MAX_SIZE
      BY <1>2
    <3> QED
      BY <3>1, <3>3, <3>4, <3>5, <3>7, <3>8
  <2>2. CASE pool = <<>>
    <3> DEFINE b == [cap |-> BUFFER_INITIAL_CAPACITY, data |-> <<>>]
    <3>1. buffer' = [buffer EXCEPT ![c] = b] /\ pool' = pool
      BY <2>2 DEF acquire_buffer
    <3>2. <<>> \in Seq(AllPieces)
      OBVIOUS
    <3>3. b \in Vec /\ b.data = <<>>
      BY <3>2 DEF Vec
    <3> QED
      BY <3>1, <3>3 DEF IInv, Types
  <2> QED
    BY <2>1, <2>2
<1>4. Types'
  BY <1>1, <1>3 DEF IInv, Types
<1>5. conn'[c] = "parse" /\ buffer'[c] = b
  BY <1>1, <1>3 DEF IInv, Types
<1>6. Flow(sent[c], <<>>, wire[c], unsent[c], <<Turn(c), 1>>)
  BY <1>1 DEF IInv, ConnOK, Reader, Stream
<1>7. Reader(c)'
  <2>1. Stream(c, <<Turn(c), 1>>)'
    BY <1>1, <1>3, <1>5, <1>6 DEF Stream, Turn
  <2> QED
    BY <1>3, <1>5, <2>1 DEF Reader
<1>8. ConnOK(c)'
  <2>1. Answered(c)'
    BY <1>1 DEF IInv, ConnOK, Answered
  <2>2. Len(<<>>) = 0
    OBVIOUS
  <2>3. b.cap \in Nat
    BY ConnectionAssumption DEF Vec
  <2> QED
    BY <1>3, <1>5, <1>7, <2>1, <2>2, <2>3 DEF ConnOK
<1>9. \A d \in Conns : d # c => Unmoved(d)
  BY <1>1, <1>3 DEF Unmoved, IInv, Types
<1> QED
  BY <1>1, <1>4, <1>8, <1>9, LocalStep

\* What the client does leaves a task where it is, and what was sent as it was.
LEMMA ClientKeeps ==
  ASSUME IInv, NEW c \in Conns,
         /\ conn'[c] = conn[c] /\ buffer'[c] = buffer[c] /\ cur'[c] = cur[c]
         /\ answered'[c] = answered[c],
         \A i \in 1..Len(sent[c]) : i <= Len(sent'[c]) /\ sent'[c][i] = sent[c][i],
         \A a : Stream(c, a) => Flow(sent'[c], buffer[c].data, wire'[c], unsent'[c], a)
  PROVE  ConnOK(c)'
<1>1. ConnOK(c) /\ Turn(c)' = Turn(c) /\ Turn(c) \in Nat \ {0} /\ Len(sent[c]) \in Nat /\ Len(answered[c]) \in Nat
  BY TypesOf DEF IInv, Turn
<1>2. Answered(c)'
  <2>1. \A i \in 1..Len(answered[c]) : i <= Len(sent[c]) => i \in 1..Len(sent[c])
    BY <1>1
  <2> QED
    BY <1>1, <2>1 DEF ConnOK, Answered
<1>3. Serving(c) => Serving(c)'
  <2>1. Turn(c) <= Len(sent[c]) => Turn(c) \in 1..Len(sent[c])
    BY <1>1
  <2> QED
    BY <1>1, <2>1 DEF Serving
<1>4. Reader(c)'
  <2>1. CASE conn[c] \in {"none", "parse"}
    <3> DEFINE x == buffer[c].data  a == <<Turn(c), IF x = <<>> THEN 1 ELSE x[1].k>>
    <3>1. Stream(c, a) /\ (x # <<>> => x[1].k <= x[1].req.shape.hdr) /\ (conn[c] = "none" => x = <<>>)
      BY <1>1, <2>1 DEF ConnOK, Reader
    <3>2. Flow(sent'[c], x, wire'[c], unsent'[c], a)
      BY <3>1
    <3> QED
      BY <1>1, <2>1, <3>1, <3>2 DEF Reader, Stream
  <2>2. CASE conn[c] = "body"
    <3> DEFINE a == <<Turn(c), cur[c].req.shape.hdr + Len(cur[c].body) + 1>>
    <3>1. /\ Serving(c) /\ buffer[c].data = <<>> /\ Len(cur[c].body) < cur[c].req.shape.body
          /\ \A i \in 1..Len(cur[c].body) :
                cur[c].body[i] = [req |-> cur[c].req, k |-> cur[c].req.shape.hdr + i]
          /\ Stream(c, a)
      BY <1>1, <2>2 DEF ConnOK, Reader
    <3>2. Flow(sent'[c], buffer[c].data, wire'[c], unsent'[c], a)
      BY <3>1
    <3>3. Stream(c, <<Turn(c), cur[c].req.shape.hdr + Len(cur[c].body) + 1>>)'
      BY <1>1, <3>2 DEF Stream
    <3> QED
      BY <1>1, <1>3, <2>2, <3>1, <3>3 DEF Reader
  <2>3. CASE conn[c] = "respond"
    <3>1. Serving(c) /\ cur[c].body = Body(cur[c].req) /\ Stream(c, <<Turn(c) + 1, 1>>)
      BY <1>1, <2>3 DEF ConnOK, Reader
    <3>2. Stream(c, <<Turn(c) + 1, 1>>)'
      BY <1>1, <3>1 DEF Stream
    <3> QED
      BY <1>1, <1>3, <2>3, <3>1, <3>2 DEF Reader
  <2>4. CASE conn[c] \notin {"none", "parse", "body", "respond"}
    BY <1>1, <2>4 DEF ConnOK, Reader
  <2> QED
    BY <2>1, <2>2, <2>3, <2>4
<1> QED
  BY <1>1, <1>2, <1>4 DEF ConnOK

LEMMA ArrivesKeeps == ASSUME IInv, NEW c \in Conns, Arrives(c) PROVE IInv'
<1> DEFINE u == unsent[c]  w == wire[c]
<1>1. /\ u # <<>> /\ wire' = [wire EXCEPT ![c] = Append(w, Head(u))]
      /\ unsent' = [unsent EXCEPT ![c] = Tail(u)]
      /\ UNCHANGED <<pool, conn, buffer, deadline, cur, sent, eof, answered, reason>>
  BY DEF Arrives
<1>2. u \in Seq(AllPieces) /\ w \in Seq(AllPieces) /\ buffer[c].data \in Seq(AllPieces)
  BY TypesOf DEF IInv
<1>3. Append(w, Head(u)) \in Seq(AllPieces) /\ Tail(u) \in Seq(AllPieces)
  BY <1>1, <1>2, HeadTailProperties, AppendProperties
<1>4. \A a : Stream(c, a) => Flow(sent[c], buffer[c].data, Append(w, Head(u)), Tail(u), a)
  BY <1>1, <1>2, FlowArrives DEF Stream
<1>5. wire'[c] = Append(w, Head(u)) /\ unsent'[c] = Tail(u)
  BY <1>1 DEF IInv, Types
<1>6. Types'
  BY <1>1, <1>3 DEF IInv, Types
<1>7. ConnOK(c)'
  <2>1. \A i \in 1..Len(sent[c]) : i <= Len(sent'[c]) /\ sent'[c][i] = sent[c][i]
    <3>1. Len(sent[c]) \in Nat
      BY TypesOf DEF IInv
    <3> QED
      BY <1>1, <3>1
  <2>2. \A a : Stream(c, a) => Flow(sent'[c], buffer[c].data, wire'[c], unsent'[c], a)
    BY <1>1, <1>4, <1>5
  <2> QED
    BY <1>1, <2>1, <2>2, ClientKeeps
<1>8. \A d \in Conns : d # c => Unmoved(d)
  BY <1>1 DEF Unmoved, IInv, Types
<1> QED
  BY <1>1, <1>6, <1>7, <1>8, LocalStep

LEMMA SendsKeeps == ASSUME IInv, NEW c \in Conns, NEW sh \in Shapes, ClientSends(c, sh) PROVE IInv'
<1> DEFINE r == [of |-> c, n |-> Len(sent[c]) + 1, shape |-> sh]
           s == sent[c]  u == unsent[c]  more == Append(s, r)
<1>1. /\ Requests < MaxRequests /\ sent' = [sent EXCEPT ![c] = more]
      /\ unsent' = [unsent EXCEPT ![c] = u \o Pieces(r)]
      /\ UNCHANGED <<pool, conn, buffer, deadline, cur, wire, eof, answered, reason>>
  BY DEF ClientSends
<1>2. /\ s \in Seq(AllRequests) /\ Len(s) \in Nat /\ u \in Seq(AllPieces) /\ wire[c] \in Seq(AllPieces)
      /\ buffer[c].data \in Seq(AllPieces)
  BY TypesOf DEF IInv
<1>3. r \in AllRequests /\ r.n = Len(s) + 1 /\ r.of = c
  BY <1>2 DEF AllRequests
<1> HIDE DEF r
<1>4. /\ more \in Seq(AllRequests) /\ Len(more) = Len(s) + 1
      /\ (\A i \in 1..Len(s) : more[i] = s[i]) /\ more[Len(s) + 1] = r
  BY <1>2, <1>3, AppendProperties
<1>5. u \o Pieces(r) \in Seq(AllPieces)
  BY <1>2, <1>3, PiecesOf, ConcatProperties
<1>6. \A a : Stream(c, a) => Flow(more, buffer[c].data, wire[c], u \o Pieces(r), a)
  BY <1>2, <1>3, FlowSends DEF Stream
<1> HIDE DEF more
<1>7. /\ sent'[c] = more /\ unsent'[c] = u \o Pieces(r)
      /\ \A d \in Conns : d # c => sent'[d] = sent[d]
  BY <1>1 DEF IInv, Types
<1>8. Types'
  BY <1>1, <1>4, <1>5 DEF IInv, Types
<1>9. ConnOK(c)'
  <2>1. \A i \in 1..Len(sent[c]) : i <= Len(sent'[c]) /\ sent'[c][i] = sent[c][i]
    BY <1>2, <1>4, <1>7
  <2>2. \A a : Stream(c, a) => Flow(sent'[c], buffer[c].data, wire'[c], unsent'[c], a)
    BY <1>1, <1>6, <1>7
  <2> QED
    BY <1>1, <2>1, <2>2, ClientKeeps
<1>10. \A d \in Conns : d # c => Unmoved(d)
  BY <1>1 DEF Unmoved, IInv, Types
<1>11. \A d \in Conns : ConnOK(d)'
  BY <1>9, <1>10, UnmovedKeeps DEF IInv
<1>12. SentInv'
  <2>1. IsFiniteSet(Begun) /\ Cardinality(Begun) < MaxRequests /\ MaxRequests \in Nat /\ Cardinality(Begun) \in Nat
    BY <1>1, FS_CardinalityType, ConnectionAssumption DEF IInv, SentInv, Requests, Begun
  <2>2. ToSet(more) = ToSet(s) \cup {r}
    <3>1. DOMAIN more = 1..Len(s) + 1 /\ DOMAIN s = 1..Len(s)
      BY <1>2, <1>4
    <3>2. \A i \in 1..Len(s) + 1 : i \in 1..Len(s) \/ i = Len(s) + 1
      BY <1>2
    <3>3. 1..Len(s) \subseteq 1..Len(s) + 1 /\ Len(s) + 1 \in 1..Len(s) + 1
      BY <1>2
    <3> QED
      BY <1>4, <3>1, <3>2, <3>3 DEF ToSet
  <2>3. Begun' = Begun \cup {r}
    <3>1. Begun' = UNION {ToSet(sent'[d]) : d \in Conns}
      BY DEF Begun, ToSet
    <3>2. ToSet(sent'[c]) = ToSet(sent[c]) \cup {r} /\ \A d \in Conns : d # c => ToSet(sent'[d]) = ToSet(sent[d])
      BY <1>7, <2>2
    <3> QED
      BY <3>1, <3>2 DEF Begun
  <2>4. IsFiniteSet(Begun \cup {r}) /\ Cardinality(Begun \cup {r}) <= MaxRequests
    <3>1. /\ IsFiniteSet(Begun \cup {r})
          /\ Cardinality(Begun \cup {r}) = IF r \in Begun THEN Cardinality(Begun) ELSE Cardinality(Begun) + 1
      BY <2>1, FS_AddElement
    <3> QED
      BY <2>1, <3>1
  <2>5. \A i \in 1..Len(more) : more[i].of = c /\ more[i].n = i
    <3>1. \A i \in 1..Len(more) : i \in 1..Len(s) \/ i = Len(s) + 1
      BY <1>2, <1>4
    <3> QED
      BY <1>3, <1>4, <3>1 DEF IInv, SentInv
  <2>6. \A d \in Conns : \A i \in 1..Len(sent'[d]) : sent'[d][i].of = d /\ sent'[d][i].n = i
    BY <1>7, <2>5 DEF IInv, SentInv
  <2> QED
    BY <2>3, <2>4, <2>6 DEF SentInv
<1> QED
  BY <1>8, <1>11, <1>12 DEF IInv

LEMMA HangsUpKeeps == ASSUME IInv, NEW c \in Conns, HangsUp(c) PROVE IInv'
<1>1. /\ eof' = [eof EXCEPT ![c] = TRUE]
      /\ UNCHANGED <<pool, conn, buffer, deadline, cur, sent, unsent, wire, answered, reason>>
  BY DEF HangsUp
<1>2. Types'
  BY <1>1 DEF IInv, Types
<1>3. \A d \in Conns : Unmoved(d)
  BY <1>1 DEF Unmoved
<1>4. ConnOK(c)'
  BY <1>3, UnmovedKeeps DEF IInv
<1> QED
  BY <1>1, <1>2, <1>3, <1>4, LocalStep

-----------------------------------------------------------------------------
LEMMA InitInv == Init => IInv
<1> SUFFICES ASSUME Init PROVE IInv
  OBVIOUS
<1>1. \A S : <<>> \in Seq(S) /\ Len(<<>>) = 0
  OBVIOUS
<1>2. Vec_new \in Vec /\ Vec_new.data = <<>> /\ Vec_new.cap = 0 /\ Nothing \in Work
  BY <1>1 DEF Vec_new, Vec, Nothing, Work
<1>3. Types
  BY <1>1, <1>2, ConnectionAssumption DEF Init, Types, Reasons
<1>4. SentInv
  <2>1. Begun = {}
    BY DEF Begun, ToSet, Init
  <2>2. IsFiniteSet({}) /\ Cardinality({}) = 0
    BY FS_EmptySet
  <2>3. \A c \in Conns : Len(sent[c]) = 0
    BY <1>1 DEF Init
  <2> QED
    BY <2>1, <2>2, <2>3, ConnectionAssumption DEF SentInv
<1>5. ASSUME NEW c \in Conns PROVE ConnOK(c)
  <2>1. /\ answered[c] = <<>> /\ conn[c] = "none" /\ buffer[c] = Vec_new /\ sent[c] = <<>>
        /\ wire[c] = <<>> /\ unsent[c] = <<>>
    BY DEF Init
  <2>2. Turn(c) = 1 /\ Len(sent[c]) + 1 = 1
    BY <1>1, <2>1 DEF Turn
  <2>3. Stream(c, <<Turn(c), 1>>)
    <3>1. Flow(sent[c], <<>>, <<>>, <<>>, <<1, 1>>)
      BY <2>2, RunOfNothing DEF Flow
    <3> QED
      BY <1>2, <2>1, <2>2, <3>1 DEF Stream
  <2>4. Reader(c)
    BY <1>2, <2>1, <2>3 DEF Reader
  <2>5. Answered(c)
    BY <1>1, <2>1 DEF Answered
  <2> QED
    BY <1>1, <1>2, <2>1, <2>4, <2>5 DEF ConnOK
<1> QED
  BY <1>3, <1>4, <1>5 DEF IInv

LEMMA StepInv == IInv /\ [Next]_vars => IInv'
<1> SUFFICES ASSUME IInv, [Next]_vars PROVE IInv'
  OBVIOUS
<1>1. CASE UNCHANGED vars
  <2>1. UNCHANGED <<pool, conn, buffer, deadline, cur, sent, unsent, wire, eof, answered, reason>>
    BY <1>1 DEF vars, clientVars
  <2>2. Types'
    BY <2>1 DEF IInv, Types
  <2>3. SentInv'
    BY <2>1 DEF IInv, SentInv, Begun
  <2>4. \A d \in Conns : ConnOK(d)'
    BY <2>1, UnmovedKeeps DEF IInv, Unmoved
  <2> QED
    BY <2>2, <2>3, <2>4 DEF IInv
<1>2. ASSUME NEW c \in Conns, acquire_buffer(c) \/ Task(c) \/ Client(c) PROVE IInv'
  <2>1. CASE acquire_buffer(c)
    BY <2>1, AcquireKeeps
  <2>2. CASE Task(c)
    BY <2>2, ReadKeeps, LeaveKeeps, BodyBufferedKeeps, BodyPartialKeeps, BodyReadKeeps,
       RespondKeeps, UpgradeKeeps DEF Task
  <2>3. CASE Client(c)
    BY <2>3, ArrivesKeeps, HangsUpKeeps, SendsKeeps DEF Client
  <2> QED
    BY <1>2, <2>1, <2>2, <2>3
<1> QED
  BY <1>1, <1>2 DEF Next

(* Whatever the reads split or join, and however the connections share the     *)
(* buffers: every handler is given the next request of its own client, whole,   *)
(* in order and with its own body (lib.rs:1383-1387, 1573-1606, 3343-3356).     *)
THEOREM RequestsAreOwn == Spec => []OwnRequests
<1>1. IInv => OwnRequests
  <2> SUFFICES ASSUME IInv, NEW c \in Conns
               PROVE  \A i \in DOMAIN answered[c] :
                         /\ i <= Len(sent[c])
                         /\ answered[c][i] = [req |-> sent[c][i], body |-> Given(sent[c][i])]
    BY DEF OwnRequests
  <2>1. DOMAIN answered[c] = 1..Len(answered[c])
    BY TypesOf DEF IInv
  <2> QED
    BY <2>1 DEF IInv, ConnOK, Answered
<1> QED
  BY <1>1, InitInv, StepInv, PTL DEF Spec

(* The pool and every buffer keep within their sizes, and a buffer that is      *)
(* handed to the parser begins inside the header of the next request of its     *)
(* own client: never with the rest of a body, nor with what another connection  *)
(* left in a recycled buffer (lib.rs:90-126, 1573-1581, 3343-3356).             *)
THEOREM BuffersStayInSync == Spec => []BuffersInSync
<1>1. IInv => TypeOK
  <2> SUFFICES ASSUME IInv PROVE TypeOK
    OBVIOUS
  <2>1. DOMAIN pool = 1..Len(pool) /\ \A i \in 1..Len(pool) : pool[i] \in Vec
    BY ElementOfSeq DEF IInv, Types
  <2>2. \A i \in DOMAIN pool : pool[i].cap \in {0, BUFFER_INITIAL_CAPACITY}
    BY <2>1 DEF Vec
  <2>3. Requests <= MaxRequests
    BY DEF IInv, SentInv, Begun, Requests
  <2>4. \A c \in Conns : Len(buffer[c].data) <= buffer[c].cap
    BY DEF IInv, ConnOK
  <2> QED
    BY <2>2, <2>3, <2>4 DEF IInv, Types, TypeOK, Reasons
<1>2. IInv => InSync
  <2> SUFFICES ASSUME IInv, NEW c \in Conns, conn[c] = "parse", buffer[c].data # <<>>
               PROVE  LET p == Head(buffer[c].data)
                      IN  p.req.of = c /\ p.req.n = Len(answered[c]) + 1 /\ p.k <= p.req.shape.hdr
    BY DEF InSync
  <2> DEFINE x == buffer[c].data
  <2>1. /\ x[1].req = sent[c][Turn(c)] /\ Turn(c) <= Len(sent[c])
        /\ x[1].k <= x[1].req.shape.hdr /\ Head(x) = x[1]
    BY ReaderAtHeader
  <2>2. Turn(c) \in 1..Len(sent[c])
    BY <2>1, TypesOf DEF IInv, Turn
  <2>3. sent[c][Turn(c)].of = c /\ sent[c][Turn(c)].n = Turn(c)
    BY <2>2 DEF IInv, SentInv
  <2> QED
    BY <2>1, <2>3 DEF Turn
<1> QED
  BY <1>1, <1>2, InitInv, StepInv, PTL DEF Spec, BuffersInSync
=============================================================================
