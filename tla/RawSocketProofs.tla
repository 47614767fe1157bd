---------------------------- MODULE RawSocketProofs ----------------------------
(***************************************************************************)
(* Proofs about RawSocket for every set of callers, every number of calls  *)
(* of any methods, with a password or without, as long as calls do not     *)
(* overlap and payloads are such that their length field can count them.   *)
(***************************************************************************)
EXTENDS RawSocket, SequenceTheorems, TLAPS

-----------------------------------------------------------------------------
(* Types, and which of the callers is in a call.                           *)

Unit == [of : Nat, method : Method \cup {"data", "Authenticate"}, len : Nat]
Result == {"pending", "nil", "error", "empty", "title", "garbage"}
Quiet == \A c \in Caller : call[c] = 0
Dialing == conn \in {"dialing", "authenticating"}

Typed ==
  /\ conn \in {"dialing", "authenticating", "open", "broken", "closed"}
  /\ issued \in Seq(Request)
  /\ returned \in Seq(Result) /\ Len(returned) = Len(issued)
  /\ call \in [Caller -> 0 .. Len(issued)]
  /\ doing \in [Caller -> {"header", "payload", "length", "title"}]
  /\ wire \in Seq(Unit)
  /\ answers \in Seq({0, 1})
  /\ obeyed \in Seq([method : Method, of : Nat, len : Nat, payload : Seq(Unit)])
  /\ \A c \in Caller : doing[c] # "header" => call[c] # 0

\* Without overlap the caller is in the last call, and what it does befits its request.
Alone ==
  ~overlapped =>
    \A c \in Caller : call[c] # 0 =>
      /\ call[c] = Len(issued)
      /\ \A d \in Caller : call[d] # 0 => d = c
      /\ doing[c] = "payload" => PayloadLen(Request1(c)) > 0
      /\ doing[c] \in {"length", "title"} => Request1(c)[1] = "Identify"

\* Authentication is over before the first call.
AuthUnits == <<[of |-> 0, method |-> "Authenticate", len |-> 1], [of |-> 0, method |-> "data", len |-> 0]>>

Opened ==
  /\ Dialing => issued = <<>> /\ obeyed = <<>> /\ ~astray
  /\ conn = "dialing" => wire = <<>> /\ answers = <<>>
  /\ conn = "authenticating" => \/ wire = AuthUnits /\ answers = <<>>
                                \/ wire = <<>> /\ answers \in {<<0>>, <<1>>}
  /\ ~Dialing => \A k \in DOMAIN wire : wire[k].method # "Authenticate"

-----------------------------------------------------------------------------
(* The answers.                                                            *)

Attended ==
  ~overlapped /\ ~Dialing =>
    /\ \A k \in DOMAIN wire : wire[k].method = "Identify" =>
         /\ k = Len(wire) /\ wire[k].len = 0 /\ answers = <<>>
         /\ (\E c \in Caller : doing[c] = "length") \/ (conn # "open" /\ Quiet)
    /\ conn = "open" /\ Quiet => answers = <<>>
    /\ \A c \in Caller : call[c] # 0 =>
         /\ doing[c] \in {"header", "payload"} => answers = <<>>
         /\ doing[c] = "length" => answers \in {<<>>, <<0>>, <<1, 1>>}
         /\ doing[c] = "title" => answers = <<1>>
    /\ \A i \in DOMAIN returned : returned[i] # "garbage"

-----------------------------------------------------------------------------
(* The stream of commands.                                                 *)

Fine == ~overlapped /\ ~Dialing /\ \A i \in DOMAIN issued : Fits(issued[i])

Size(s, i) == PayloadLen(s[i])
Header(s, i) == HeaderUnit(i, s[i])
Datum(i) == [of |-> i, method |-> "data", len |-> 0]

\* Among the units w the one at k is the header of call i of s, with its payload and the
\* header of the next call behind it, unless it is the header of the last command, m.
BlockAt(w, s, k, i, m) ==
  /\ w[k] = Header(s, i)
  /\ k = Len(w) => i = m
  /\ k # Len(w) => /\ k + Size(s, i) <= Len(w)
                   /\ \A j \in 1 .. Size(s, i) : w[k + j] = Datum(i)
                   /\ k + Size(s, i) = Len(w) => i = m
                   /\ k + Size(s, i) # Len(w) => i < m /\ w[k + Size(s, i) + 1] = Header(s, i + 1)

\* The units w are the calls of s behind the first o, up to m.
Blocks(w, s, o, m) ==
  /\ w = <<>> => o = m
  /\ w # <<>> => o < m /\ w[1] = Header(s, o + 1)
  /\ \A k \in DOMAIN w : w[k].method # "data" => \E i \in 1 .. m : BlockAt(w, s, k, i, m)

\* The payload of the last command is missing.
Cut(w, s, m) == w # <<>> /\ w[Len(w)].method # "data" /\ Size(s, m) > 0

\* The calls that the device has not obeyed, up to m, are on the wire.
Stream(m) ==
  /\ m \in 0 .. Len(issued) /\ Len(issued) <= m + 1
  /\ Blocks(wire, issued, Len(obeyed), m)
  /\ \A c \in Caller : call[c] # 0 =>
       /\ doing[c] = "header" => m + 1 = Len(issued) /\ ~Cut(wire, issued, m)
       /\ doing[c] # "header" => m = Len(issued) /\ (Cut(wire, issued, m) <=> doing[c] = "payload")
  /\ conn = "open" /\ Quiet => m = Len(issued) /\ ~Cut(wire, issued, m)

AsMade ==
  /\ ~astray
  /\ \A i \in DOMAIN obeyed :
       /\ obeyed[i].of = i /\ obeyed[i].method = issued[i][1]
       /\ obeyed[i].payload = PayloadUnits(i, issued[i])

Streaming == Fine => AsMade /\ \E m \in 0 .. Len(issued) : Stream(m)
-----------------------------------------------------------------------------
(* Requests and what they are on the wire.                                 *)

LEMMA ModType ==
  ASSUME NEW n \in Nat, NEW d \in Nat \ {0}
  PROVE  n % d \in Nat /\ n % d <= n /\ (n < d => n % d = n)
OBVIOUS

\* A request's length fits into its header if its payload is shorter than what the length
\* field can count.
LEMMA RequestType ==
  ASSUME NEW r \in Request
  PROVE  /\ r[1] \in Method /\ r[1] # "data" /\ r[1] # "Authenticate"
         /\ PayloadLen(r) \in Nat
         /\ LengthField(r) \in Nat
         /\ r[1] = "Identify" => PayloadLen(r) = 0 /\ LengthField(r) = 0
         /\ Fits(r) => (IF r[1] = "Wait" THEN 0 ELSE LengthField(r)) = PayloadLen(r)
<1>1. r[1] \in Method /\ r[2] \in Nat
  BY RawAssumption
<1>2. PICK p \in Nat : p = PayloadLen(r)
  <2>1. Prefix(r[1]) \in Nat
    BY DEF Prefix
  <2> QED
    BY <1>1, <2>1 DEF PayloadLen
<1>3. PICK s \in Nat \ {0}, w \in Nat \ {0} : s = Short /\ w = Wide
  BY RawAssumption
<1>4. /\ p % s \in Nat /\ (p < s => p % s = p)
      /\ p % w \in Nat /\ (p < w => p % w = p)
  BY ModType
<1>5. LengthField(r) \in Nat
  BY <1>1, <1>2, <1>3, <1>4 DEF LengthField
<1>6. r[1] = "Identify" => p = 0
  BY <1>2 DEF PayloadLen, Bare
<1>7. r[1] = "Identify" => LengthField(r) = 0
  <2> SUFFICES ASSUME r[1] = "Identify" PROVE LengthField(r) = 0
    OBVIOUS
  <2>1. LengthField(r) = p % s
    BY <1>2, <1>3 DEF LengthField, Wide24
  <2>2. 0 < s => 0 % s = 0
    BY ModType
  <2> QED
    BY <1>6, <1>3, <2>1, <2>2
<1>8. r[1] = "Wait" => p = 0
  BY <1>2 DEF PayloadLen
<1>9. Fits(r) => (IF r[1] = "Wait" THEN 0 ELSE LengthField(r)) = p
  <2> SUFFICES ASSUME Fits(r), r[1] # "Wait" PROVE LengthField(r) = p
    BY <1>8
  <2>1. CASE r[1] \in Wide24
    BY <1>2, <1>3, <1>4, <2>1 DEF LengthField, Fits
  <2>2. CASE r[1] \notin Wide24
    BY <1>2, <1>3, <1>4, <2>2 DEF LengthField, Fits
  <2> QED
    BY <2>1, <2>2
<1>10. r[1] # "data" /\ r[1] # "Authenticate"
  BY <1>1 DEF Method
<1> QED
  BY <1>1, <1>2, <1>5, <1>6, <1>7, <1>9, <1>10

LEMMA UnitsType ==
  ASSUME NEW r \in Request, NEW i \in Nat
  PROVE  /\ HeaderUnit(i, r) \in Unit
         /\ PayloadUnits(i, r) \in Seq(Unit)
         /\ Len(PayloadUnits(i, r)) = PayloadLen(r)
         /\ \A j \in 1 .. PayloadLen(r) : PayloadUnits(i, r)[j] = Datum(i)
<1>1. HeaderUnit(i, r) \in Unit
  BY RequestType DEF HeaderUnit, Unit
<1>2. PICK p \in Nat : p = PayloadLen(r)
  BY RequestType
<1>3. PayloadUnits(i, r) = [j \in 1 .. p |-> Datum(i)]
  BY <1>2 DEF PayloadUnits, Datum
<1>4. Datum(i) \in Unit
  BY DEF Datum, Unit
<1>5. PayloadUnits(i, r) \in Seq(Unit) /\ Len(PayloadUnits(i, r)) = p
  BY <1>3, <1>4
<1> QED
  BY <1>1, <1>2, <1>3, <1>5

-----------------------------------------------------------------------------
(* Types.                                                                  *)

LEMMA Lengths ==
  ASSUME Typed
  PROVE  Len(issued) \in Nat /\ Len(wire) \in Nat /\ Len(answers) \in Nat /\ Len(obeyed) \in Nat
BY DEF Typed

\* The request of a caller in a call.
LEMMA OwnRequest ==
  ASSUME Typed, NEW c \in Caller, call[c] # 0
  PROVE  call[c] \in 1 .. Len(issued) /\ Request1(c) \in Request
<1>1. call[c] \in 1 .. Len(issued)
  BY Lengths DEF Typed
<1> QED
  BY <1>1, ElementOfSeq DEF Typed, Request1

Doing == {"header", "payload", "length", "title"}

\* A call returns.
LEMMA Returns ==
  ASSUME Typed, NEW c \in Caller, call[c] # 0, NEW result \in Result, Return(c, result)
  PROVE  /\ call' \in [Caller -> 0 .. Len(issued)]
         /\ doing' \in [Caller -> Doing]
         /\ returned' \in Seq(Result) /\ Len(returned') = Len(issued)
         /\ call'[c] = 0 /\ doing'[c] = "header"
         /\ \A d \in Caller \ {c} : call'[d] = call[d] /\ doing'[d] = doing[d]
         /\ \A i \in DOMAIN returned : returned'[i] \in {returned[i], result}
<1>1. PICK l \in Nat : l = Len(issued)
  BY Lengths
<1>2. call' \in [Caller -> 0 .. l] /\ call'[c] = 0 /\ \A d \in Caller \ {c} : call'[d] = call[d]
  <2>1. call \in [Caller -> 0 .. l] /\ call' = [call EXCEPT ![c] = 0]
    BY <1>1 DEF Typed, Return
  <2> QED
    BY <2>1
<1>3. doing' \in [Caller -> Doing] /\ doing'[c] = "header" /\ \A d \in Caller \ {c} : doing'[d] = doing[d]
  <2>1. doing \in [Caller -> Doing] /\ doing' = [doing EXCEPT ![c] = "header"]
    BY DEF Typed, Return, Doing
  <2> QED
    BY <2>1 DEF Doing
<1>4. returned' \in Seq(Result) /\ Len(returned') = l
  <2>1. PICK i, s : returned' = [s EXCEPT ![i] = result] /\ s = returned /\ i \in 1 .. l
    BY <1>1, OwnRequest DEF Return
  <2>2. s \in Seq(Result) /\ Len(s) = l /\ i \in 1 .. Len(s)
    BY <1>1, <2>1 DEF Typed
  <2>3. [s EXCEPT ![i] = result] \in Seq(Result) /\ Len([s EXCEPT ![i] = result]) = l
    BY <2>2, ExceptSeq
  <2> QED
    BY <2>1, <2>3
<1>5. \A i \in DOMAIN returned : returned'[i] \in {returned[i], result}
  BY DEF Return
<1> QED
  BY <1>1, <1>2, <1>3, <1>4, <1>5

\* A caller goes on with its call.
LEMMA GoesOn ==
  ASSUME Typed, NEW c \in Caller, NEW w \in Doing, doing' = [doing EXCEPT ![c] = w]
  PROVE  /\ doing' \in [Caller -> Doing] /\ doing'[c] = w
         /\ \A d \in Caller \ {c} : doing'[d] = doing[d]
BY DEF Typed, Doing

\* What of the types a step of a caller that is in a call can disturb.
LEMMA TypedCall ==
  ASSUME Typed, NEW c \in Caller, call[c] # 0,
         conn' \in {conn, "broken"}, UNCHANGED <<issued, obeyed>>,
         wire' \in Seq(Unit), answers' \in Seq({0, 1}),
         \/ \E result \in Result : Return(c, result)
         \/ \E w \in Doing : doing' = [doing EXCEPT ![c] = w] /\ UNCHANGED <<call, returned>>
  PROVE  Typed'
<1>1. CASE \E result \in Result : Return(c, result)
  <2>1. /\ call' \in [Caller -> 0 .. Len(issued)]
        /\ doing' \in [Caller -> Doing]
        /\ returned' \in Seq(Result) /\ Len(returned') = Len(issued)
        /\ call'[c] = 0 /\ doing'[c] = "header"
        /\ \A d \in Caller \ {c} : call'[d] = call[d] /\ doing'[d] = doing[d]
    BY <1>1, Returns
  <2>2. \A d \in Caller : doing'[d] # "header" => call'[d] # 0
    BY <2>1 DEF Typed
  <2> QED
    BY <2>1, <2>2 DEF Typed, Doing
<1>2. CASE \E w \in Doing : doing' = [doing EXCEPT ![c] = w] /\ UNCHANGED <<call, returned>>
  <2>1. /\ doing' \in [Caller -> Doing] /\ UNCHANGED <<call, returned>>
        /\ \A d \in Caller \ {c} : doing'[d] = doing[d]
    BY <1>2, GoesOn
  <2>2. \A d \in Caller : doing'[d] # "header" => call'[d] # 0
    BY <2>1 DEF Typed
  <2> QED
    BY <2>1, <2>2 DEF Typed, Doing
<1> QED
  BY <1>1, <1>2

\* The step of a caller.
LEMMA TypedCalls ==
  ASSUME Typed, NEW c \in Caller,
         \/ \E r \in Request : Call(c, r)
         \/ WriteHeader(c) \/ WritePayload(c) \/ ReadLength(c) \/ ReadTitle(c) \/ IOFails(c)
  PROVE  Typed'
<1>1. ASSUME NEW r \in Request, Call(c, r) PROVE Typed'
  <2>1. PICK l \in Nat : l = Len(issued)
    BY Lengths
  <2>2. issued' \in Seq(Request) /\ Len(issued') = l + 1
    <3>1. issued' = Append(issued, r) /\ issued \in Seq(Request)
      BY <1>1 DEF Typed, Call
    <3> QED
      BY <2>1, <3>1, AppendProperties
  <2>3. returned' \in Seq(Result) /\ Len(returned') = l + 1
    <3>1. returned' = Append(returned, "pending") /\ returned \in Seq(Result) /\ Len(returned) = l
      BY <1>1, <2>1 DEF Typed, Call
    <3>2. "pending" \in Result
      BY DEF Result
    <3> QED
      BY <3>1, <3>2, AppendProperties
  <2>4. call' \in [Caller -> 0 .. l + 1] /\ \A d \in Caller : call[d] # 0 => call'[d] # 0
    <3>1. call \in [Caller -> 0 .. l] /\ call' = [call EXCEPT ![c] = l + 1]
      BY <1>1, <2>1, <2>2 DEF Typed, Call
    <3> QED
      BY <3>1
  <2>5. UNCHANGED <<conn, doing, wire, answers, obeyed>>
    BY <1>1 DEF Call
  <2>6. \A d \in Caller : doing'[d] # "header" => call'[d] # 0
    BY <2>4, <2>5 DEF Typed
  <2> QED
    BY <2>2, <2>3, <2>4, <2>5, <2>6 DEF Typed
<1>2. ASSUME call[c] # 0 PROVE call[c] \in Nat /\ Request1(c) \in Request
  BY <1>2, OwnRequest, Lengths
<1>3. CASE WriteHeader(c)
  <2>1. call[c] # 0 /\ UNCHANGED <<conn, issued, answers, obeyed>>
    BY <1>3 DEF WriteHeader
  <2>2. wire' \in Seq(Unit)
    <3>1. HeaderUnit(call[c], Request1(c)) \in Unit
      BY <1>2, <2>1, UnitsType
    <3>2. wire' = Append(wire, HeaderUnit(call[c], Request1(c))) /\ wire \in Seq(Unit)
      BY <1>3 DEF Typed, WriteHeader
    <3> QED
      BY <3>1, <3>2, AppendProperties
  <2>3. \/ \E result \in Result : Return(c, result)
        \/ \E w \in Doing : doing' = [doing EXCEPT ![c] = w] /\ UNCHANGED <<call, returned>>
    BY <1>3 DEF WriteHeader, Doing, Result
  <2> QED
    BY <2>1, <2>2, <2>3, TypedCall DEF Typed
<1>4. CASE WritePayload(c)
  <2>1. call[c] # 0 /\ UNCHANGED <<conn, issued, answers, obeyed>> /\ Return(c, "nil")
    BY <1>4 DEF WritePayload, Typed
  <2>2. wire' \in Seq(Unit)
    <3>1. PayloadUnits(call[c], Request1(c)) \in Seq(Unit)
      BY <1>2, <2>1, UnitsType
    <3>2. wire' = wire \o PayloadUnits(call[c], Request1(c)) /\ wire \in Seq(Unit)
      BY <1>4 DEF Typed, WritePayload
    <3> QED
      BY <3>1, <3>2, ConcatProperties
  <2>3. \E result \in Result : Return(c, result)
    BY <2>1 DEF Result
  <2> QED
    BY <2>1, <2>2, <2>3, TypedCall DEF Typed
<1>5. CASE ReadLength(c) \/ ReadTitle(c)
  <2>1. call[c] # 0 /\ UNCHANGED <<conn, issued, wire, obeyed>>
    BY <1>5 DEF ReadLength, ReadTitle, Typed
  <2>2. answers' \in Seq({0, 1})
    <3>1. answers' = Tail(answers) /\ answers # <<>> /\ answers \in Seq({0, 1})
      BY <1>5 DEF Typed, ReadLength, ReadTitle
    <3> QED
      BY <3>1, HeadTailProperties
  <2>3. \/ \E result \in Result : Return(c, result)
        \/ \E w \in Doing : doing' = [doing EXCEPT ![c] = w] /\ UNCHANGED <<call, returned>>
    <3>1. CASE ReadLength(c)
      <4>1. Return(c, "empty") \/ (doing' = [doing EXCEPT ![c] = "title"] /\ UNCHANGED <<call, returned>>)
        BY <3>1 DEF ReadLength
      <4> QED
        BY <4>1 DEF Doing, Result
    <3>2. CASE ReadTitle(c)
      <4>1. Return(c, "title") \/ Return(c, "garbage")
        BY <3>2 DEF ReadTitle
      <4> QED
        BY <4>1 DEF Result
    <3> QED
      BY <1>5, <3>1, <3>2
  <2> QED
    BY <2>1, <2>2, <2>3, TypedCall DEF Typed
<1>6. CASE IOFails(c)
  <2>1. call[c] # 0 /\ UNCHANGED <<issued, wire, answers, obeyed>> /\ Return(c, "error")
    BY <1>6 DEF IOFails
  <2>2. conn' \in {conn, "broken"}
    BY <1>6 DEF IOFails
  <2>3. \E result \in Result : Return(c, result)
    BY <2>1 DEF Result
  <2> QED
    BY <2>1, <2>2, <2>3, TypedCall DEF Typed
<1> QED
  BY <1>1, <1>3, <1>4, <1>5, <1>6

\* Parts of a sequence.
LEMMA Parts ==
  ASSUME NEW S, NEW w \in Seq(S), NEW a \in Nat \ {0}, NEW b \in Nat, b <= Len(w)
  PROVE  /\ SubSeq(w, a, b) \in Seq(S)
         /\ Len(SubSeq(w, a, b)) = IF a <= b THEN b - a + 1 ELSE 0
         /\ \A k \in 1 .. b - a + 1 : SubSeq(w, a, b)[k] = w[a + k - 1]
<1>1. PICK l \in Nat : l = Len(w)
  OBVIOUS
<1>2. \A i \in a .. b : i \in 1 .. Len(w)
  BY <1>1
<1>3. \A i \in a .. b : w[i] \in S
  BY <1>2, ElementOfSeq
<1>4. SubSeq(w, a, b) \in Seq(S) /\ Len(SubSeq(w, a, b)) = IF a <= b THEN b - a + 1 ELSE 0
  BY <1>3, SubSeqProperties
<1>5. \A k \in 1 .. b - a + 1 : SubSeq(w, a, b)[k] = w[a + k - 1]
  BY <1>3, SubSeqProperties
<1> QED
  BY <1>4, <1>5

\* Units put on the wire behind others.
LEMMA Joined ==
  ASSUME NEW w \in Seq(Unit), NEW v \in Seq(Unit)
  PROVE  LET z == w \o v IN
         /\ z \in Seq(Unit) /\ Len(z) = Len(w) + Len(v)
         /\ \A k \in 1 .. Len(w) : z[k] = w[k]
         /\ \A j \in 1 .. Len(v) : z[Len(w) + j] = v[j]
         /\ \A k \in DOMAIN z : k \in 1 .. Len(w) \/ \E j \in 1 .. Len(v) : k = Len(w) + j
<1> DEFINE z == w \o v
<1>0. PICK l \in Nat, p \in Nat : l = Len(w) /\ p = Len(v)
  OBVIOUS
<1>1. z \in Seq(Unit) /\ Len(z) = l + p
  BY <1>0, ConcatProperties
<1>2. DOMAIN z = 1 .. l + p
  BY <1>1
<1>3. \A k \in 1 .. l : z[k] = w[k]
  BY <1>0
<1>4. \A j \in 1 .. p : z[l + j] = v[j]
  <2> SUFFICES ASSUME NEW j \in 1 .. p PROVE z[l + j] = v[j]
    OBVIOUS
  <2>1. PICK k : k = l + j /\ k \in 1 .. l + p /\ ~(k <= l) /\ k - l = j
    OBVIOUS
  <2>2. z[k] = v[k - l]
    BY <1>0, <2>1, ConcatProperties
  <2> QED
    BY <2>1, <2>2
<1>5. ASSUME NEW k \in 1 .. l + p, k \notin 1 .. l PROVE \E j \in 1 .. p : k = l + j
  <2>1. k - l \in 1 .. p /\ k = l + (k - l)
    BY <1>5
  <2> QED
    BY <2>1
<1> HIDE DEF z
<1>6. /\ z \in Seq(Unit) /\ Len(z) = Len(w) + Len(v)
      /\ \A k \in 1 .. Len(w) : z[k] = w[k]
      /\ \A j \in 1 .. Len(v) : z[Len(w) + j] = v[j]
      /\ \A k \in DOMAIN z : k \in 1 .. Len(w) \/ \E j \in 1 .. Len(v) : k = Len(w) + j
  BY <1>0, <1>1, <1>2, <1>3, <1>4, <1>5
<1> QED
  BY <1>6 DEF z

\* One unit put on the wire.
LEMMA Extended ==
  ASSUME NEW w \in Seq(Unit), NEW u \in Unit
  PROVE  LET z == Append(w, u) IN
         /\ z \in Seq(Unit) /\ Len(z) = Len(w) + 1
         /\ \A k \in 1 .. Len(w) : z[k] = w[k]
         /\ z[Len(w) + 1] = u
         /\ \A k \in DOMAIN z : k \in 1 .. Len(w) \/ k = Len(w) + 1
<1> DEFINE z == Append(w, u)
<1>0. PICK l \in Nat : l = Len(w)
  OBVIOUS
<1>1. z \in Seq(Unit) /\ Len(z) = l + 1
  BY <1>0, AppendProperties
<1>2. DOMAIN z = 1 .. l + 1
  BY <1>1
<1>3. z[l + 1] = u /\ \A k \in 1 .. l : z[k] = w[k]
  BY <1>0, AppendProperties
<1> HIDE DEF z
<1>4. /\ z \in Seq(Unit) /\ Len(z) = Len(w) + 1
      /\ \A k \in 1 .. Len(w) : z[k] = w[k]
      /\ z[Len(w) + 1] = u
      /\ \A k \in DOMAIN z : k \in 1 .. Len(w) \/ k = Len(w) + 1
  BY <1>0, <1>1, <1>2, <1>3
<1> QED
  BY <1>4 DEF z

\* What the device takes off the wire.
LEMMA Taken ==
  ASSUME Typed, Obey
  PROVE  /\ wire # <<>> /\ Len(wire) \in Nat \ {0} /\ ~astray
         /\ UNCHANGED <<conn, call, doing, issued, returned, overlapped>>
         /\ wire[1].method # "data"
         /\ \E n \in Nat :
              /\ n = IF wire[1].method = "Wait" THEN 0 ELSE wire[1].len
              /\ n < Len(wire)
              /\ wire' \in Seq(Unit)
              /\ Len(wire') = Len(wire) - (n + 1)
              /\ \A k \in DOMAIN wire' : k \in Nat \ {0} /\ k + (n + 1) \in DOMAIN wire
                                         /\ wire'[k] = wire[k + (n + 1)]
              /\ \/ /\ wire[1].method = "Authenticate"
                    /\ \E ok \in {0, 1} : answers' = Append(answers, ok)
                    /\ UNCHANGED obeyed
                 \/ /\ wire[1].method # "Authenticate"
                    /\ \E title \in IF wire[1].method = "Identify" THEN {<<1, 1>>, <<0>>} ELSE {<<>>} :
                         answers' = answers \o title
                    /\ obeyed' = Append(obeyed, [method |-> wire[1].method, of |-> wire[1].of,
                                                 len |-> wire[1].len,
                                                 payload |-> SubSeq(wire, 2, n + 1)])
              /\ astray' = astray
<1>1. PICK w, l : l \in Nat \ {0} /\ w = wire /\ w \in Seq(Unit) /\ l = Len(w) /\ w # <<>>
  <2>1. wire \in Seq(Unit) /\ wire # <<>>
    BY DEF Typed, Obey
  <2>2. Len(wire) \in Nat \ {0}
    BY <2>1
  <2> QED
    BY <2>1, <2>2
<1>2. Head(w) = w[1] /\ w[1] \in Unit
  BY <1>1, ElementOfSeq
<1>3. ~astray /\ UNCHANGED <<conn, call, doing, issued, returned, overlapped>>
  BY DEF Obey
<1>4. wire[1].method # "data"
  BY <1>1, <1>2 DEF Obey
<1>5. \E n \in Nat :
        /\ n = IF wire[1].method = "Wait" THEN 0 ELSE wire[1].len
        /\ n < Len(wire)
        /\ wire' \in Seq(Unit)
        /\ Len(wire') = Len(wire) - (n + 1)
        /\ \A k \in DOMAIN wire' : k \in Nat \ {0} /\ k + (n + 1) \in DOMAIN wire
                                   /\ wire'[k] = wire[k + (n + 1)]
        /\ \/ /\ wire[1].method = "Authenticate"
              /\ \E ok \in {0, 1} : answers' = Append(answers, ok)
              /\ UNCHANGED obeyed
           \/ /\ wire[1].method # "Authenticate"
              /\ \E title \in IF wire[1].method = "Identify" THEN {<<1, 1>>, <<0>>} ELSE {<<>>} :
                   answers' = answers \o title
              /\ obeyed' = Append(obeyed, [method |-> wire[1].method, of |-> wire[1].of,
                                           len |-> wire[1].len,
                                           payload |-> SubSeq(wire, 2, n + 1)])
        /\ astray' = astray
  <2>1. PICK n \in Nat : n = IF w[1].method = "Wait" THEN 0 ELSE w[1].len
    BY <1>2 DEF Unit
  <2>2. Head(wire) = w[1] /\ w = wire
    BY <1>1, <1>2
  <2>3. /\ Len(w) > n
        /\ wire' = SubSeq(w, n + 2, Len(w))
        /\ \/ /\ w[1].method = "Authenticate"
              /\ \E ok \in {0, 1} : answers' = Append(answers, ok)
              /\ UNCHANGED obeyed
           \/ /\ w[1].method # "Authenticate"
              /\ \E title \in IF w[1].method = "Identify" THEN {<<1, 1>>, <<0>>} ELSE {<<>>} :
                   answers' = answers \o title
              /\ obeyed' = Append(obeyed, [method |-> w[1].method, of |-> w[1].of,
                                           len |-> w[1].len, payload |-> SubSeq(w, 2, n + 1)])
        /\ astray' = astray
    <3> DEFINE acts(v, h, k) == /\ Len(v) > k
                                /\ wire' = SubSeq(v, k + 2, Len(v))
                                /\ \/ /\ h.method = "Authenticate"
                                      /\ \E ok \in {0, 1} : answers' = Append(answers, ok)
                                      /\ UNCHANGED obeyed
                                   \/ /\ h.method # "Authenticate"
                                      /\ \E title \in IF h.method = "Identify" THEN {<<1, 1>>, <<0>>} ELSE {<<>>} :
                                           answers' = answers \o title
                                      /\ obeyed' = Append(obeyed, [method |-> h.method, of |-> h.of,
                                                                   len |-> h.len,
                                                                   payload |-> SubSeq(v, 2, k + 1)])
    <3>1. acts(wire, Head(wire), IF Head(wire).method = "Wait" THEN 0 ELSE Head(wire).len)
      BY Zenon DEF Obey
    <3> HIDE DEF acts
    <3>2. acts(w, w[1], n)
      BY <2>1, <2>2, <3>1
    <3>3. astray' = astray
      BY DEF Obey
    <3> QED
      BY <3>2, <3>3 DEF acts
  <2>4. PICK v : v = SubSeq(w, n + 2, l)
    OBVIOUS
  <2>5. PICK m \in Nat \ {0} : m = n + 2
    OBVIOUS
  <2>6. n < l /\ l - m + 1 = l - (n + 1)
    BY <1>1, <2>3, <2>5
  <2>7. v \in Seq(Unit) /\ Len(v) = l - (n + 1)
    <3>1. SubSeq(w, m, l) \in Seq(Unit) /\ Len(SubSeq(w, m, l)) = IF m <= l THEN l - m + 1 ELSE 0
      BY <1>1, Parts
    <3> QED
      BY <1>1, <2>4, <2>5, <2>6, <3>1
  <2>8. ASSUME NEW k \in DOMAIN v
        PROVE  k \in Nat \ {0} /\ k + (n + 1) \in DOMAIN w /\ v[k] = w[k + (n + 1)]
    <3>1. k \in 1 .. l - m + 1
      BY <2>6, <2>7
    <3>2. SubSeq(w, m, l)[k] = w[m + k - 1]
      BY <1>1, <3>1, Parts
    <3>3. m + k - 1 = k + (n + 1) /\ k + (n + 1) \in 1 .. l /\ k \in Nat \ {0}
      BY <1>1, <2>5, <2>6, <3>1
    <3> QED
      BY <1>1, <2>4, <2>5, <3>2, <3>3
  <2>9. v = wire'
    BY <1>1, <2>3, <2>4
  <2>10. /\ n = IF wire[1].method = "Wait" THEN 0 ELSE wire[1].len
         /\ n < Len(wire)
         /\ \/ /\ wire[1].method = "Authenticate"
               /\ \E ok \in {0, 1} : answers' = Append(answers, ok)
               /\ UNCHANGED obeyed
            \/ /\ wire[1].method # "Authenticate"
               /\ \E title \in IF wire[1].method = "Identify" THEN {<<1, 1>>, <<0>>} ELSE {<<>>} :
                    answers' = answers \o title
               /\ obeyed' = Append(obeyed, [method |-> wire[1].method, of |-> wire[1].of,
                                            len |-> wire[1].len,
                                            payload |-> SubSeq(wire, 2, n + 1)])
         /\ astray' = astray
    BY <2>1, <2>2, <2>3
  <2>11. /\ wire' \in Seq(Unit)
         /\ Len(wire') = Len(wire) - (n + 1)
         /\ \A k \in DOMAIN wire' : k \in Nat \ {0} /\ k + (n + 1) \in DOMAIN wire
                                    /\ wire'[k] = wire[k + (n + 1)]
    BY <1>1, <2>7, <2>8, <2>9
  <2> QED
    BY <2>10, <2>11
<1>6. wire # <<>> /\ Len(wire) \in Nat \ {0}
  BY <1>1
<1> QED
  BY <1>3, <1>4, <1>5, <1>6

LEMMA TypedObey ==
  ASSUME Typed, Obey
  PROVE  Typed' /\ (Dialing /\ Opened => obeyed' = obeyed /\ astray' = astray)
<1>0. UNCHANGED <<conn, call, doing, issued, returned>>
  BY Taken
<1>1. wire[1].method # "data"
  BY Taken
<1>2. Typed' /\ (Dialing /\ Opened => obeyed' = obeyed /\ astray' = astray)
  <2>0. wire # <<>>
    BY Taken
  <2>1. PICK n, h :
          /\ n \in Nat
          /\ n = IF h.method = "Wait" THEN 0 ELSE h.len
          /\ h = wire[1]
          /\ n < Len(wire)
          /\ wire' \in Seq(Unit)
          /\ \/ /\ h.method = "Authenticate"
                /\ \E ok \in {0, 1} : answers' = Append(answers, ok)
                /\ UNCHANGED obeyed
             \/ /\ h.method # "Authenticate"
                /\ \E title \in IF h.method = "Identify" THEN {<<1, 1>>, <<0>>} ELSE {<<>>} :
                     answers' = answers \o title
                /\ obeyed' = Append(obeyed, [method |-> h.method, of |-> h.of, len |-> h.len,
                                             payload |-> SubSeq(wire, 2, n + 1)])
          /\ astray' = astray
    BY Taken
  <2>2. answers' \in Seq({0, 1})
    <3>0. answers \in Seq({0, 1})
      BY DEF Typed
    <3>1. ASSUME NEW ok \in {0, 1}, answers' = Append(answers, ok) PROVE answers' \in Seq({0, 1})
      BY <3>0, <3>1, AppendProperties
    <3>2. ASSUME NEW title \in {<<1, 1>>, << 0 >>, <<>>}, answers' = answers \o title
          PROVE  answers' \in Seq({0, 1})
      <4>1. <<1, 1>> \in Seq({0, 1}) /\ <<0>> \in Seq({0, 1}) /\ <<>> \in Seq({0, 1})
        OBVIOUS
      <4> QED
        BY <3>0, <3>2, <4>1, ConcatProperties
    <3> QED
      BY <2>1, <3>1, <3>2
  <2>3. h \in Unit /\ h.method # "data"
    <3>1. PICK w, l : w = wire /\ w \in Seq(Unit) /\ l = Len(w) /\ l \in Nat \ {0}
      BY Taken DEF Typed
    <3>2. 1 \in 1 .. Len(w)
      BY <3>1
    <3> QED
      BY <1>1, <2>1, <3>2, <3>1, ElementOfSeq
  <2>4. obeyed' \in Seq([method : Method, of : Nat, len : Nat, payload : Seq(Unit)])
    <3>1. SubSeq(wire, 2, n + 1) \in Seq(Unit)
      <4>1. PICK w : w = wire /\ w \in Seq(Unit) /\ n < Len(w)
        BY <2>1 DEF Typed
      <4>2. PICK m \in Nat : m = n + 1 /\ m <= Len(w)
        BY <2>1, <4>1
      <4>3. SubSeq(w, 2, m) \in Seq(Unit)
        BY <4>1, <4>2, Parts
      <4> QED
        BY <4>1, <4>2, <4>3
    <3>2. h.method # "Authenticate" => [method |-> h.method, of |-> h.of, len |-> h.len,
             payload |-> SubSeq(wire, 2, n + 1)] \in [method : Method, of : Nat, len : Nat, payload : Seq(Unit)]
      BY <2>3, <3>1 DEF Unit
    <3>3. obeyed \in Seq([method : Method, of : Nat, len : Nat, payload : Seq(Unit)])
      BY DEF Typed
    <3>4. CASE UNCHANGED obeyed
      BY <3>3, <3>4
    <3>5. CASE h.method # "Authenticate"
      <4>1. PICK e : /\ e = [method |-> h.method, of |-> h.of, len |-> h.len,
                             payload |-> SubSeq(wire, 2, n + 1)]
                     /\ obeyed' = Append(obeyed, e)
        BY <2>1, <3>5
      <4>2. e \in [method : Method, of : Nat, len : Nat, payload : Seq(Unit)]
        BY <3>2, <3>5, <4>1
      <4> QED
        BY <3>3, <4>1, <4>2, AppendProperties
    <3> QED
      BY <2>1, <3>4, <3>5
  <2>5. Dialing /\ Opened => h.method = "Authenticate"
    <3>1. AuthUnits[1].method = "Authenticate"
      BY DEF AuthUnits
    <3> QED
      BY <2>0, <2>1, <3>1 DEF Dialing, Opened
  <2> QED
    BY <1>0, <2>1, <2>2, <2>4, <2>5 DEF Typed
<1> QED
  BY <1>2

LEMMA TypedStray ==
  ASSUME Typed, Stray
  PROVE  Typed' /\ (Opened => Opened' /\ ~Dialing)
<1>1. /\ UNCHANGED <<conn, call, doing, issued, returned, obeyed>> /\ wire' = <<>> /\ wire # <<>>
      /\ \E answer \in {<<>>, <<0>>, <<1, 1>>} : answers' = answers \o answer
  BY DEF Stray
<1>2. answers' \in Seq({0, 1})
  <2>1. answers \in Seq({0, 1})
    BY DEF Typed
  <2>2. <<1, 1>> \in Seq({0, 1}) /\ <<0>> \in Seq({0, 1}) /\ <<>> \in Seq({0, 1})
    OBVIOUS
  <2>3. PICK answer \in Seq({0, 1}) : answers' = answers \o answer
    BY <1>1, <2>2
  <2> QED
    BY <2>1, <2>3, ConcatProperties
<1>3. wire' \in Seq(Unit)
  BY <1>1
<1>4. ASSUME Opened PROVE ~Dialing
  <2> SUFFICES ASSUME Dialing PROVE FALSE
    OBVIOUS
  <2>1. wire = AuthUnits /\ ~astray
    BY <1>1, <1>4 DEF Opened, Dialing
  <2>2. Head(AuthUnits).method = "Authenticate"
    BY DEF AuthUnits
  <2> QED
    BY <2>1, <2>2 DEF Stray
<1> QED
  BY <1>1, <1>2, <1>3, <1>4 DEF Typed, Opened, Dialing

LEMMA TypedInit == RawInit => Typed /\ Alone /\ Opened
<1> SUFFICES ASSUME RawInit PROVE Typed /\ Alone /\ Opened
  OBVIOUS
<1>1. /\ conn = "dialing" /\ call = [c \in Caller |-> 0] /\ doing = [c \in Caller |-> "header"]
      /\ issued = <<>> /\ returned = <<>> /\ wire = <<>> /\ answers = <<>> /\ obeyed = <<>>
      /\ ~astray
  BY DEF RawInit
<1>2. \A c \in Caller : call[c] = 0 /\ doing[c] = "header"
  BY <1>1
<1>3. Len(issued) = 0 /\ Len(returned) = 0
  BY <1>1
<1>4. call \in [Caller -> 0 .. Len(issued)] /\ doing \in [Caller -> Doing]
  BY <1>1, <1>3 DEF Doing
<1>5. /\ issued \in Seq(Request) /\ returned \in Seq(Result) /\ wire \in Seq(Unit)
      /\ answers \in Seq({0, 1})
      /\ obeyed \in Seq([method : Method, of : Nat, len : Nat, payload : Seq(Unit)])
  BY <1>1, EmptySeq
<1> QED
  BY <1>1, <1>2, <1>3, <1>4, <1>5 DEF Typed, Alone, Opened, Dialing, Doing

LEMMA TypedDial ==
  ASSUME Typed, Opened, Dial \/ Authenticated \/ Close
  PROVE  Typed'
<1>1. UNCHANGED <<call, doing, issued, returned, obeyed>>
  BY DEF Dial, Authenticated, Close
<1>2. conn' \in {"dialing", "authenticating", "open", "broken", "closed"}
  BY DEF Dial, Authenticated, Close
<1>3. wire' \in Seq(Unit)
  <2>1. AuthUnits \in Seq(Unit)
    <3>1. \A a, b \in Unit : <<a, b>> \in Seq(Unit)
      OBVIOUS
    <3>2. [of |-> 0, method |-> "Authenticate", len |-> 1] \in Unit
      BY DEF Unit
    <3>3. [of |-> 0, method |-> "data", len |-> 0] \in Unit
      BY DEF Unit
    <3> QED
      BY <3>1, <3>2, <3>3 DEF AuthUnits
  <2>2. wire' = wire \/ wire' = AuthUnits \/ wire' = <<>>
    BY DEF Dial, Authenticated, Close, AuthUnits
  <2>3. <<>> \in Seq(Unit)
    OBVIOUS
  <2> QED
    BY <2>1, <2>2, <2>3 DEF Typed
<1>4. answers' \in Seq({0, 1})
  <2>1. answers' = answers \/ answers' = <<>> \/ (answers # <<>> /\ answers' = Tail(answers))
    BY DEF Dial, Authenticated, Close
  <2>2. answers \in Seq({0, 1})
    BY DEF Typed
  <2>3. <<>> \in Seq({0, 1})
    OBVIOUS
  <2>4. answers # <<>> => Tail(answers) \in Seq({0, 1})
    BY <2>2, HeadTailProperties
  <2> QED
    BY <2>1, <2>2, <2>3, <2>4
<1> QED
  BY <1>1, <1>2, <1>3, <1>4 DEF Typed

LEMMA TypedStep ==
  ASSUME Typed, Opened, [RawNext]_rawVars
  PROVE  Typed'
<1>1. CASE RawNext
  <2>1. ASSUME NEW c \in Caller,
               \/ \E r \in Request : Call(c, r)
               \/ WriteHeader(c) \/ WritePayload(c) \/ ReadLength(c) \/ ReadTitle(c) \/ IOFails(c)
        PROVE  Typed'
    BY <2>1, TypedCalls
  <2> QED
    BY <1>1, <2>1, TypedDial, TypedObey, TypedStray DEF RawNext
<1>2. CASE UNCHANGED rawVars
  BY <1>2 DEF rawVars, Typed
<1> QED
  BY <1>1, <1>2

LEMMA AloneStep ==
  ASSUME Typed, Alone, [RawNext]_rawVars
  PROVE  Alone'
<1> SUFFICES ASSUME ~overlapped', NEW c \in Caller, call'[c] # 0
             PROVE  /\ call'[c] = Len(issued')
                    /\ \A d \in Caller : call'[d] # 0 => d = c
                    /\ doing'[c] = "payload" => PayloadLen(issued'[call'[c]]) > 0
                    /\ doing'[c] \in {"length", "title"} => issued'[call'[c]][1] = "Identify"
  BY DEF Alone, Request1
<1>0. ASSUME NEW b \in Caller, call[b] # 0, ~overlapped
      PROVE  /\ call[b] = Len(issued)
             /\ \A d \in Caller : call[d] # 0 => d = b
             /\ doing[b] = "payload" => PayloadLen(issued[call[b]]) > 0
             /\ doing[b] \in {"length", "title"} => issued[call[b]][1] = "Identify"
  BY <1>0 DEF Alone, Request1
<1>1. ASSUME NEW b \in Caller, NEW r \in Request, Call(b, r) PROVE c = b /\ call'[b] = Len(issued') /\ doing'[b] = "header"
  <2>1. \A d \in Caller : call[d] = 0
    BY <1>1 DEF Call
  <2>2. call' = [call EXCEPT ![b] = Len(issued')] /\ doing'[b] = doing[b]
    BY <1>1 DEF Call
  <2>3. call \in [Caller -> 0 .. Len(issued)]
    BY DEF Typed
  <2> QED
    BY <2>1, <2>2, <2>3 DEF Typed
<1>2. ASSUME NEW b \in Caller, NEW r \in Request, Call(b, r)
      PROVE  \A d \in Caller : call'[d] # 0 => d = b
  BY <1>2 DEF Call, Typed
<1>3. ASSUME NEW b \in Caller, call[b] # 0, overlapped' = overlapped, issued' = issued,
             \/ \E result \in Result : Return(b, result)
             \/ \E w \in Doing : /\ doing' = [doing EXCEPT ![b] = w] /\ UNCHANGED <<call, returned>>
                                 /\ w = "payload" => PayloadLen(issued[call[b]]) > 0
                                 /\ w \in {"length", "title"} => issued[call[b]][1] = "Identify"
      PROVE  /\ call'[c] = Len(issued')
             /\ \A d \in Caller : call'[d] # 0 => d = c
             /\ doing'[c] = "payload" => PayloadLen(issued'[call'[c]]) > 0
             /\ doing'[c] \in {"length", "title"} => issued'[call'[c]][1] = "Identify"
  <2>1. ~overlapped
    BY <1>3
  <2>2. \A d \in Caller : call[d] # 0 => d = b
    BY <1>0, <1>3, <2>1
  <2>3. CASE \E result \in Result : Return(b, result)
    <3>1. call'[b] = 0 /\ \A d \in Caller \ {b} : call'[d] = call[d]
      BY <1>3, <2>3, Returns
    <3> QED
      BY <2>2, <3>1
  <2>4. ASSUME NEW w \in Doing, doing' = [doing EXCEPT ![b] = w], UNCHANGED <<call, returned>>,
               w = "payload" => PayloadLen(issued[call[b]]) > 0,
               w \in {"length", "title"} => issued[call[b]][1] = "Identify"
        PROVE  /\ call'[c] = Len(issued')
               /\ \A d \in Caller : call'[d] # 0 => d = c
               /\ doing'[c] = "payload" => PayloadLen(issued'[call'[c]]) > 0
               /\ doing'[c] \in {"length", "title"} => issued'[call'[c]][1] = "Identify"
    <3>1. c = b
      BY <2>2, <2>4
    <3>2. doing'[b] = w
      BY <2>4, GoesOn
    <3> QED
      BY <1>0, <1>3, <2>1, <2>2, <2>4, <3>1, <3>2
  <2> QED
    BY <1>3, <2>3, <2>4
<1>4. CASE UNCHANGED <<call, doing, issued, overlapped>>
  BY <1>0, <1>4
<1>5. CASE Dial \/ Authenticated \/ Close \/ Obey \/ Stray \/ UNCHANGED rawVars
  BY <1>4, <1>5 DEF Dial, Authenticated, Close, Obey, Stray, rawVars
<1>6. ASSUME NEW b \in Caller,
             WriteHeader(b) \/ WritePayload(b) \/ ReadLength(b) \/ ReadTitle(b) \/ IOFails(b)
      PROVE  /\ call[b] # 0 /\ overlapped' = overlapped /\ issued' = issued
             /\ \/ \E result \in Result : Return(b, result)
                \/ \E w \in Doing : /\ doing' = [doing EXCEPT ![b] = w] /\ UNCHANGED <<call, returned>>
                                    /\ w = "payload" => PayloadLen(issued[call[b]]) > 0
                                    /\ w \in {"length", "title"} /\ ~overlapped => issued[call[b]][1] = "Identify"
  <2>1. call[b] # 0 /\ overlapped' = overlapped /\ issued' = issued
    BY <1>6 DEF WriteHeader, WritePayload, ReadLength, ReadTitle, IOFails, Typed
  <2>2. CASE WriteHeader(b)
    BY <2>1, <2>2 DEF WriteHeader, Doing, Result, Request1
  <2>3. CASE WritePayload(b) \/ ReadTitle(b) \/ IOFails(b)
    <3>1. \E result : Return(b, result) /\ result \in {"nil", "title", "garbage", "error"}
      BY <2>3 DEF WritePayload, ReadTitle, IOFails
    <3> QED
      BY <2>1, <3>1 DEF Result
  <2>4. CASE ReadLength(b)
    <3>1. \/ Return(b, "empty")
          \/ doing' = [doing EXCEPT ![b] = "title"] /\ UNCHANGED <<call, returned>>
      BY <2>4 DEF ReadLength
    <3>2. doing[b] = "length"
      BY <2>4 DEF ReadLength
    <3>3. ~overlapped => issued[call[b]][1] = "Identify"
      BY <1>0, <2>1, <3>2
    <3> QED
      BY <2>1, <3>1, <3>3 DEF Result, Doing
  <2> QED
    BY <1>6, <2>2, <2>3, <2>4, <2>1
<1>7. CASE RawNext
  <2>1. ASSUME NEW b \in Caller,
             WriteHeader(b) \/ WritePayload(b) \/ ReadLength(b) \/ ReadTitle(b) \/ IOFails(b)
        PROVE  /\ call'[c] = Len(issued')
               /\ \A d \in Caller : call'[d] # 0 => d = c
               /\ doing'[c] = "payload" => PayloadLen(issued'[call'[c]]) > 0
               /\ doing'[c] \in {"length", "title"} => issued'[call'[c]][1] = "Identify"
    <3>1. call[b] # 0 /\ overlapped' = overlapped /\ issued' = issued /\ ~overlapped
      BY <1>6, <2>1
    <3>2. \/ \E result \in Result : Return(b, result)
          \/ \E w \in Doing : /\ doing' = [doing EXCEPT ![b] = w] /\ UNCHANGED <<call, returned>>
                              /\ w = "payload" => PayloadLen(issued[call[b]]) > 0
                              /\ w \in {"length", "title"} => issued[call[b]][1] = "Identify"
      BY <1>6, <2>1, <3>1
    <3> QED
      BY <1>3, <3>1, <3>2
  <2>2. ASSUME NEW b \in Caller, NEW r \in Request, Call(b, r)
        PROVE  /\ call'[c] = Len(issued')
               /\ \A d \in Caller : call'[d] # 0 => d = c
               /\ doing'[c] = "payload" => PayloadLen(issued'[call'[c]]) > 0
               /\ doing'[c] \in {"length", "title"} => issued'[call'[c]][1] = "Identify"
    <3>1. c = b /\ call'[b] = Len(issued') /\ doing'[b] = "header"
      BY <1>1, <2>2
    <3>2. \A d \in Caller : call'[d] # 0 => d = b
      BY <1>2, <2>2, <3>1
    <3> QED
      BY <3>1, <3>2
  <2> QED
    BY <1>5, <1>7, <2>1, <2>2 DEF RawNext
<1> QED
  BY <1>5, <1>7

LEMMA OpenedStep ==
  ASSUME Typed, Opened, [RawNext]_rawVars
  PROVE  Opened'
<1>0. Dialing => \A c \in Caller : call[c] = 0 /\ doing[c] = "header"
  <2> SUFFICES ASSUME Dialing, NEW c \in Caller PROVE call[c] = 0 /\ doing[c] = "header"
    OBVIOUS
  <2>1. Len(issued) = 0
    BY DEF Opened
  <2>2. call[c] \in 0 .. 0
    BY <2>1 DEF Typed
  <2>3. call[c] = 0
    BY <2>2
  <2> QED
    BY <2>3 DEF Typed
<1>1. CASE Dial
  <2>1. /\ UNCHANGED <<issued, obeyed, astray, answers>> /\ Dialing /\ wire = <<>> /\ answers = <<>>
        /\ issued = <<>> /\ obeyed = <<>> /\ ~astray
    BY <1>1 DEF Dial, Opened, Dialing
  <2>2. \/ conn' \in {"closed", "open"} /\ wire' = wire
        \/ conn' = "authenticating" /\ wire' = AuthUnits
    BY <1>1 DEF Dial, AuthUnits
  <2> QED
    BY <2>1, <2>2 DEF Opened, Dialing
<1>2. CASE Authenticated
  <2>1. /\ UNCHANGED <<issued, obeyed, astray>> /\ conn = "authenticating"
        /\ conn' \in {"open", "closed"} /\ wire' = <<>>
    BY <1>2 DEF Authenticated, Opened
  <2> QED
    BY <2>1 DEF Opened, Dialing
<1>3. CASE Close
  BY <1>3 DEF Close, Opened, Dialing
<1>4. CASE Obey
  <2>0. conn' = conn /\ issued' = issued
    BY <1>4, Taken
  <2>1. CASE ~Dialing
    <3>1. ASSUME NEW k \in DOMAIN wire' PROVE wire'[k].method # "Authenticate"
      <4>1. CASE wire' = wire
        BY <2>1, <4>1 DEF Opened
      <4>2. CASE wire' # wire
        <5>1. \E j \in DOMAIN wire : wire'[k] = wire[j]
          BY <1>4, <4>2, Taken
        <5> QED
          BY <2>1, <5>1 DEF Opened
      <4> QED
        BY <4>1, <4>2
    <3> QED
      BY <2>0, <2>1, <3>1 DEF Opened, Dialing
  <2>2. CASE Dialing
    <3>1. conn = "authenticating" /\ wire = AuthUnits /\ answers = <<>>
      BY <1>4, <2>2, Taken DEF Opened, Dialing
    <3>2. AuthUnits[1] = [of |-> 0, method |-> "Authenticate", len |-> 1] /\ Len(AuthUnits) = 2
      BY DEF AuthUnits
    <3>3. PICK n \in Nat :
            /\ n = IF wire[1].method = "Wait" THEN 0 ELSE wire[1].len
            /\ wire' \in Seq(Unit)
            /\ Len(wire') = Len(wire) - (n + 1)
            /\ \E ok \in {0, 1} : answers' = Append(answers, ok)
      BY <1>4, <3>1, <3>2, Taken
    <3>4. n = 1
      BY <3>1, <3>2, <3>3
    <3>5. Len(wire') = 0
      <4>1. Len(wire) = 2
        BY <3>1, <3>2
      <4> QED
        BY <3>3, <3>4, <4>1
    <3>6. wire' = <<>>
      BY <3>3, <3>5
    <3>7. answers' \in {<<0>>, <<1>>}
      BY <3>1, <3>3
    <3>8. obeyed' = obeyed /\ astray' = astray
      BY <1>4, <2>2, TypedObey
    <3> QED
      BY <2>0, <2>2, <3>1, <3>6, <3>7, <3>8 DEF Opened, Dialing
  <2> QED
    BY <2>1, <2>2
<1>5. ASSUME NEW c \in Caller, NEW r \in Request, Call(c, r) PROVE Opened'
  BY <1>5 DEF Call, Opened, Dialing
<1>6. ASSUME NEW c \in Caller,
             WriteHeader(c) \/ WritePayload(c) \/ ReadLength(c) \/ ReadTitle(c) \/ IOFails(c)
      PROVE  Opened'
  <2>1. ~Dialing /\ conn' \in {conn, "broken"} /\ call[c] # 0
    <3>1. call[c] # 0 /\ conn' \in {conn, "broken"}
      BY <1>6 DEF WriteHeader, WritePayload, ReadLength, ReadTitle, IOFails, Typed
    <3> QED
      BY <1>0, <3>1
  <2>2. \A k \in DOMAIN wire' : wire'[k].method # "Authenticate"
    <3>0. PICK w, l : w = wire /\ w \in Seq(Unit) /\ l = Len(w) /\ l \in Nat
      BY Lengths DEF Typed
    <3>1. \A k \in 1 .. l : w[k].method # "Authenticate"
      BY <2>1, <3>0 DEF Opened
    <3>2. PICK r, i : r = Request1(c) /\ r \in Request /\ i = call[c] /\ i \in Nat
      BY <2>1, OwnRequest, Lengths
    <3>3. CASE WriteHeader(c)
      <4>1. PICK u : u = HeaderUnit(i, r)
        OBVIOUS
      <4>2. u \in Unit /\ u.method # "Authenticate"
        BY <3>2, <4>1, UnitsType, RequestType DEF HeaderUnit
      <4>3. wire' = Append(w, u)
        BY <3>0, <3>2, <3>3, <4>1 DEF WriteHeader
      <4>4. \A k \in DOMAIN Append(w, u) : k \in 1 .. l \/ k = l + 1
        BY <3>0
      <4> QED
        BY <3>0, <3>1, <4>2, <4>3, <4>4
    <3>4. CASE WritePayload(c)
      <4>1. PICK v, p : /\ v = PayloadUnits(i, r) /\ p \in Nat /\ v \in Seq(Unit) /\ Len(v) = p
                        /\ \A j \in 1 .. p : v[j].method = "data"
        <5>1. /\ PayloadUnits(i, r) \in Seq(Unit) /\ PayloadLen(r) \in Nat
              /\ Len(PayloadUnits(i, r)) = PayloadLen(r)
              /\ \A j \in 1 .. PayloadLen(r) : PayloadUnits(i, r)[j] = Datum(i)
          BY <3>2, UnitsType, RequestType
        <5>2. Datum(i).method = "data"
          BY DEF Datum
        <5> QED
          BY <5>1, <5>2
      <4>2. wire' = w \o v
        BY <3>0, <3>2, <3>4, <4>1 DEF WritePayload
      <4>3. PICK z : z = w \o v
        OBVIOUS
      <4>4. /\ \A k \in 1 .. l : z[k] = w[k]
            /\ \A j \in 1 .. p : z[l + j] = v[j]
            /\ \A k \in DOMAIN z : k \in 1 .. l \/ \E j \in 1 .. p : k = l + j
        <5>1. w \in Seq(Unit) /\ v \in Seq(Unit) /\ l \in Nat /\ l = Len(w) /\ p \in Nat /\ p = Len(v)
          BY <3>0, <4>1
        <5> QED
          BY <4>3, <5>1, Joined
      <4>5. ASSUME NEW k \in DOMAIN z PROVE z[k].method # "Authenticate"
        <5>1. CASE k \in 1 .. l
          BY <3>1, <4>4, <5>1
        <5>2. ASSUME NEW j \in 1 .. p, k = l + j PROVE z[k].method = "data"
          BY <4>1, <4>4, <5>2
        <5> QED
          BY <4>4, <5>1, <5>2
      <4> QED
        BY <4>2, <4>3, <4>5
    <3>5. CASE wire' = wire
      BY <2>1, <3>5 DEF Opened
    <3> QED
      BY <1>6, <3>3, <3>4, <3>5 DEF ReadLength, ReadTitle, IOFails
  <2> QED
    BY <2>1, <2>2 DEF Opened, Dialing
<1>7. CASE UNCHANGED rawVars
  BY <1>7 DEF rawVars, Opened, Dialing
<1> QED
  BY <1>1, <1>2, <1>3, <1>4, <1>5, <1>6, <1>7, TypedStray DEF RawNext

Base == Typed /\ Alone /\ Opened

LEMMA BaseStep == Base /\ [RawNext]_rawVars => Base'
BY TypedStep, AloneStep, OpenedStep DEF Base

-----------------------------------------------------------------------------
(* Answers.                                                                *)

\* Attended, for a session of which no two calls overlap.
LEMMA AttendedInit == RawInit => Attended
BY DEF RawInit, Attended, Dialing

\* Without overlap the others are in no call while one is.
LEMMA OnlyOne ==
  ASSUME Base, ~overlapped, NEW c \in Caller, call[c] # 0
  PROVE  /\ call[c] = Len(issued)
         /\ \A d \in Caller \ {c} : call[d] = 0 /\ doing[d] = "header"
         /\ ~Quiet /\ ~Dialing
<1>1. call[c] = Len(issued) /\ \A d \in Caller \ {c} : call[d] = 0
  BY DEF Base, Alone
<1>2. \A d \in Caller \ {c} : doing[d] = "header"
  BY <1>1 DEF Base, Typed
<1>3. ~Dialing
  <2>1. call[c] \in 1 .. Len(issued)
    BY OwnRequest DEF Base
  <2>2. Dialing => Len(issued) = 0
    BY DEF Base, Opened
  <2> QED
    BY <2>1, <2>2
<1> QED
  BY <1>1, <1>2, <1>3 DEF Quiet

\* A caller that returns an answer other than garbage leaves none.
LEMMA AttendedReturn ==
  ASSUME Base, Attended, ~overlapped, overlapped' = overlapped, issued' = issued,
         NEW c \in Caller, call[c] # 0, NEW result \in Result \ {"garbage"}, Return(c, result),
         conn' \in {conn, "broken"},
         conn' = "open" => answers' = <<>>,
         \A k \in DOMAIN wire' : wire'[k].method = "Identify" =>
           k = Len(wire') /\ wire'[k].len = 0 /\ answers' = <<>> /\ conn' # "open"
  PROVE  Attended'
<1>1. /\ call'[c] = 0 /\ doing'[c] = "header"
      /\ \A d \in Caller \ {c} : call'[d] = call[d] /\ doing'[d] = doing[d]
      /\ \A i \in DOMAIN returned : returned'[i] \in {returned[i], result}
      /\ DOMAIN returned' = DOMAIN returned
  <2>1. /\ call'[c] = 0 /\ doing'[c] = "header"
        /\ \A d \in Caller \ {c} : call'[d] = call[d] /\ doing'[d] = doing[d]
        /\ \A i \in DOMAIN returned : returned'[i] \in {returned[i], result}
    BY Returns DEF Base
  <2>2. DOMAIN returned' = DOMAIN returned
    BY DEF Return
  <2> QED
    BY <2>1, <2>2
<1>2. \A d \in Caller : call'[d] = 0 /\ doing'[d] = "header"
  BY <1>1, OnlyOne
<1>3. ~Dialing
  BY OnlyOne
<1>4. \A i \in DOMAIN returned' : returned'[i] # "garbage"
  BY <1>1, <1>3 DEF Attended
<1> QED
  BY <1>2, <1>4 DEF Attended, Quiet

LEMMA AttendedStep ==
  ASSUME Base, Attended, [RawNext]_rawVars, ~overlapped /\ ~Dialing => ~Stray
  PROVE  Attended'
<1> SUFFICES ASSUME ~overlapped' PROVE Attended'
  BY DEF Attended
<1>0. Base'
  BY BaseStep
<1>1. CASE Dial \/ Authenticated
  <2>1. UNCHANGED <<call, doing, returned, issued, overlapped>> /\ Dialing
    BY <1>1 DEF Dial, Authenticated, Dialing
  <2>2. ASSUME conn' \notin {"dialing", "authenticating"} PROVE wire' = <<>> /\ answers' = <<>>
    <3>1. CASE Dial
      BY <2>2, <3>1 DEF Dial, Base, Opened
    <3>2. CASE Authenticated
      <4>1. \/ /\ answers' = Tail(answers) /\ wire' = wire /\ wire = <<>>
               /\ answers \in {<<0>>, <<1>>}
            \/ wire' = <<>> /\ answers' = <<>>
        <5>1. CASE answers # <<>> /\ answers' = Tail(answers) /\ wire' = wire
          BY <3>2, <5>1 DEF Authenticated, Base, Opened
        <5> QED
          BY <3>2, <5>1 DEF Authenticated
      <4>2. Tail(<<0>>) = <<>> /\ Tail(<<1>>) = <<>>
        OBVIOUS
      <4> QED
        BY <4>1, <4>2, Zenon
    <3> QED
      BY <1>1, <3>1, <3>2
  <2>3. DOMAIN returned = {}
    <3>1. returned \in Seq(Result) /\ Len(returned) = 0
      BY <2>1 DEF Base, Opened, Typed
    <3> QED
      BY <3>1
  <2>4. \A c \in Caller : call[c] = 0
    <3> SUFFICES ASSUME NEW c \in Caller, call[c] # 0 PROVE FALSE
      OBVIOUS
    <3>1. call[c] \in 1 .. Len(issued)
      BY OwnRequest DEF Base
    <3>2. Len(issued) = 0
      BY <2>1 DEF Base, Opened
    <3> QED
      BY <3>1, <3>2
  <2> QED
    BY <2>1, <2>2, <2>3, <2>4 DEF Attended, Dialing
<1>2. CASE Close
  <2>1. /\ UNCHANGED <<call, doing, issued, returned, wire, answers, overlapped>>
        /\ ~Dialing /\ conn' = "closed"
    BY <1>2 DEF Close, Dialing
  <2> QED
    BY <2>1 DEF Attended, Quiet
<1>3. CASE UNCHANGED rawVars
  BY <1>3 DEF rawVars, Attended, Quiet, Dialing
<1>4. ASSUME NEW c \in Caller, NEW r \in Request, Call(c, r) PROVE Attended'
  <2>1. /\ conn = "open" /\ \A d \in Caller : call[d] = 0
        /\ UNCHANGED <<conn, doing, wire, answers>> /\ ~overlapped
    BY <1>4 DEF Call
  <2>2. answers = <<>> /\ \A k \in DOMAIN wire : wire[k].method # "Identify"
    <3>1. \A d \in Caller : doing[d] = "header"
      BY <2>1 DEF Base, Typed
    <3> QED
      BY <2>1, <3>1 DEF Attended, Dialing, Quiet
  <2>3. \A i \in DOMAIN returned' : returned'[i] # "garbage"
    <3>1. returned' = Append(returned, "pending") /\ returned \in Seq(Result)
      BY <1>4 DEF Call, Base, Typed
    <3>2. "pending" \in Result
      BY DEF Result
    <3>3. \A i \in DOMAIN returned' : i \in DOMAIN returned \/ returned'[i] = "pending"
      BY <3>1, <3>2, AppendProperties
    <3>4. \A i \in DOMAIN returned : returned'[i] = returned[i]
      BY <3>1, <3>2, AppendProperties
    <3> QED
      BY <2>1, <3>3, <3>4 DEF Attended, Dialing
  <2>4. \A d \in Caller : doing'[d] = "header"
    BY <2>1 DEF Base, Typed
  <2>5. call'[c] # 0
    <3>1. Len(issued') \in Nat /\ Len(issued') # 0 /\ call' = [call EXCEPT ![c] = Len(issued')]
      BY <1>4 DEF Call, Base, Typed
    <3> QED
      BY <3>1 DEF Base, Typed
  <2> QED
    BY <2>1, <2>2, <2>3, <2>4, <2>5 DEF Attended, Quiet
<1>5. ASSUME NEW c \in Caller, WriteHeader(c) PROVE Attended'
  <2>1. /\ call[c] # 0 /\ doing[c] = "header" /\ UNCHANGED <<conn, issued, answers, overlapped>>
        /\ ~overlapped
    BY <1>5 DEF WriteHeader
  <2>2. ~Dialing /\ ~Quiet /\ \A d \in Caller \ {c} : call[d] = 0 /\ doing[d] = "header"
    BY <2>1, OnlyOne
  <2>3. answers = <<>> /\ \A k \in DOMAIN wire : wire[k].method # "Identify"
    BY <2>1, <2>2 DEF Attended
  <2>4. PICK r, i, u : /\ r = Request1(c) /\ r \in Request /\ i = call[c] /\ i \in Nat
                       /\ u = HeaderUnit(i, r) /\ u \in Unit
    BY <2>1, OwnRequest, Lengths, UnitsType DEF Base
  <2>5. PICK w, l : w = wire /\ l = Len(w) /\ l \in Nat /\ w \in Seq(Unit)
    BY Lengths DEF Base, Typed
  <2>6. PICK z : z = Append(w, u) /\ z = wire'
    BY <1>5, <2>4, <2>5 DEF WriteHeader
  <2>7. /\ Len(z) = l + 1 /\ z[l + 1] = u
        /\ \A k \in DOMAIN z : k = l + 1 \/ (k \in DOMAIN w /\ z[k] = w[k])
    <3>1. /\ Len(z) = Len(w) + 1 /\ z[Len(w) + 1] = u
          /\ \A k \in 1 .. Len(w) : z[k] = w[k]
          /\ \A k \in DOMAIN z : k \in 1 .. Len(w) \/ k = Len(w) + 1
      <4>1. w \in Seq(Unit) /\ u \in Unit /\ z = Append(w, u)
        BY <2>4, <2>5, <2>6
      <4> QED
        BY <4>1, Extended
    <3>2. l = Len(w) /\ l \in Nat /\ DOMAIN w = 1 .. Len(w)
      BY <2>5
    <3> QED
      BY <3>1, <3>2
  <2>8. \A k \in DOMAIN z : z[k].method = "Identify" => k = Len(z) /\ r[1] = "Identify" /\ z[k].len = 0
    <3>1. u.method = "Identify" => r[1] = "Identify" /\ u.len = 0
      BY <2>4, RequestType DEF HeaderUnit
    <3> QED
      BY <2>3, <2>5, <2>7, <3>1
  <2>9. CASE r[1] # "Identify" /\ Return(c, "nil")
    <3>1. "nil" \in Result \ {"garbage"}
      BY DEF Result
    <3>2. \A k \in DOMAIN wire' : wire'[k].method # "Identify"
      BY <2>6, <2>8, <2>9
    <3> QED
      BY <2>1, <2>3, <2>9, <3>1, <3>2, AttendedReturn
  <2>10. CASE /\ doing' = [doing EXCEPT ![c] = "payload"] /\ UNCHANGED <<call, returned>>
              /\ r[1] # "Identify"
    <3>1. doing'[c] = "payload" /\ \A d \in Caller \ {c} : doing'[d] = doing[d]
      BY <2>10, GoesOn DEF Base, Doing
    <3>2. \A k \in DOMAIN wire' : wire'[k].method # "Identify"
      BY <2>6, <2>8, <2>10
    <3>3. \A j \in DOMAIN returned : returned[j] # "garbage"
      BY <2>1, <2>2 DEF Attended
    <3>4. ~Quiet'
      BY <2>1, <2>10 DEF Quiet
    <3> QED
      BY <2>1, <2>2, <2>3, <2>10, <3>1, <3>2, <3>3, <3>4 DEF Attended
  <2>11. CASE doing' = [doing EXCEPT ![c] = "length"] /\ UNCHANGED <<call, returned>>
    <3>1. doing'[c] = "length" /\ \A d \in Caller \ {c} : doing'[d] = doing[d]
      BY <2>11, GoesOn DEF Base, Doing
    <3>2. \A k \in DOMAIN wire' : wire'[k].method = "Identify" => k = Len(wire') /\ wire'[k].len = 0
      BY <2>6, <2>8
    <3>3. \A j \in DOMAIN returned : returned[j] # "garbage"
      BY <2>1, <2>2 DEF Attended
    <3>4. ~Quiet'
      BY <2>1, <2>11 DEF Quiet
    <3> QED
      BY <2>1, <2>2, <2>3, <2>11, <3>1, <3>2, <3>3, <3>4 DEF Attended
  <2>12. \/ r[1] # "Identify" /\ Return(c, "nil")
         \/ /\ doing' = [doing EXCEPT ![c] = "payload"] /\ UNCHANGED <<call, returned>>
            /\ r[1] # "Identify"
         \/ doing' = [doing EXCEPT ![c] = "length"] /\ UNCHANGED <<call, returned>>
    <3>1. r[1] = "Identify" => ~(PayloadLen(r) > 0)
      BY <2>4, RequestType
    <3> QED
      BY <1>5, <2>4, <3>1 DEF WriteHeader
  <2> QED
    BY <2>9, <2>10, <2>11, <2>12
<1>6. ASSUME NEW c \in Caller, WritePayload(c) PROVE Attended'
  <2>1. /\ doing[c] = "payload" /\ UNCHANGED <<conn, issued, answers, overlapped>>
        /\ ~overlapped /\ Return(c, "nil")
    BY <1>6 DEF WritePayload
  <2>2. call[c] # 0
    BY <2>1 DEF Base, Typed
  <2>3. ~Dialing /\ ~Quiet /\ \A d \in Caller \ {c} : call[d] = 0 /\ doing[d] = "header"
    BY <2>1, <2>2, OnlyOne
  <2>4. answers = <<>> /\ \A k \in DOMAIN wire : wire[k].method # "Identify"
    BY <2>1, <2>2, <2>3 DEF Attended
  <2>5. PICK r, i, v, p :
          /\ r = Request1(c) /\ r \in Request /\ i = call[c] /\ i \in Nat
          /\ v = PayloadUnits(i, r) /\ v \in Seq(Unit) /\ p = Len(v) /\ p \in Nat
          /\ \A j \in 1 .. p : v[j] = Datum(i)
    <3>1. PICK r, i : r = Request1(c) /\ r \in Request /\ i = call[c] /\ i \in Nat
      BY <2>2, OwnRequest, Lengths DEF Base
    <3>2. /\ PayloadUnits(i, r) \in Seq(Unit) /\ PayloadLen(r) \in Nat
          /\ Len(PayloadUnits(i, r)) = PayloadLen(r)
          /\ \A j \in 1 .. PayloadLen(r) : PayloadUnits(i, r)[j] = Datum(i)
      BY <3>1, UnitsType, RequestType
    <3> QED
      BY <3>1, <3>2
  <2>6. PICK w, l : w = wire /\ l = Len(w) /\ l \in Nat /\ w \in Seq(Unit)
    BY Lengths DEF Base, Typed
  <2>7. PICK z : z = w \o v /\ z = wire'
    BY <1>6, <2>5, <2>6 DEF WritePayload
  <2>8. /\ \A k \in 1 .. l : z[k] = w[k]
        /\ \A j \in 1 .. p : z[l + j] = v[j]
        /\ \A k \in DOMAIN z : k \in 1 .. l \/ \E j \in 1 .. p : k = l + j
    <3>1. w \in Seq(Unit) /\ v \in Seq(Unit) /\ l = Len(w) /\ p = Len(v)
      BY <2>5, <2>6
    <3>2. z = w \o v
      BY <2>7
    <3> QED
      BY <3>1, <3>2, Joined
  <2>9. \A k \in DOMAIN z : z[k].method # "Identify"
    <3>1. Datum(i).method = "data"
      BY DEF Datum
    <3> QED
      BY <2>4, <2>5, <2>6, <2>8, <3>1
  <2>10. "nil" \in Result \ {"garbage"}
    BY DEF Result
  <2> QED
    BY <2>1, <2>2, <2>4, <2>7, <2>9, <2>10, AttendedReturn
<1>7. ASSUME NEW c \in Caller, ReadLength(c) PROVE Attended'
  <2>1. /\ doing[c] = "length" /\ answers # <<>> /\ answers' = Tail(answers)
        /\ UNCHANGED <<conn, issued, wire, overlapped>> /\ ~overlapped
    BY <1>7 DEF ReadLength
  <2>2. call[c] # 0
    BY <2>1 DEF Base, Typed
  <2>3. ~Dialing /\ ~Quiet /\ \A d \in Caller \ {c} : call[d] = 0 /\ doing[d] = "header"
    BY <2>1, <2>2, OnlyOne
  <2>4. answers \in {<<0>>, <<1, 1>>} /\ \A k \in DOMAIN wire : wire[k].method # "Identify"
    BY <2>1, <2>2, <2>3 DEF Attended
  <2>5. CASE answers = <<0>>
    <3>1. Return(c, "empty") /\ answers' = <<>>
      BY <1>7, <2>1, <2>5 DEF ReadLength
    <3>2. "empty" \in Result \ {"garbage"}
      BY DEF Result
    <3> QED
      BY <2>1, <2>2, <2>4, <3>1, <3>2, AttendedReturn
  <2>6. CASE answers = <<1, 1>>
    <3>1. /\ doing' = [doing EXCEPT ![c] = "title"] /\ UNCHANGED <<call, returned>>
          /\ answers' = <<1>>
      BY <1>7, <2>1, <2>6 DEF ReadLength
    <3>2. doing'[c] = "title" /\ \A d \in Caller \ {c} : doing'[d] = doing[d]
      BY <3>1, GoesOn DEF Base, Doing
    <3>3. \A i \in DOMAIN returned : returned[i] # "garbage"
      BY <2>1, <2>3 DEF Attended
    <3>4. ~Quiet'
      BY <2>2, <3>1 DEF Quiet
    <3> QED
      BY <2>1, <2>2, <2>3, <2>4, <3>1, <3>2, <3>3, <3>4 DEF Attended
  <2> QED
    BY <2>4, <2>5, <2>6
<1>8. ASSUME NEW c \in Caller, ReadTitle(c) PROVE Attended'
  <2>1. /\ doing[c] = "title" /\ answers # <<>> /\ answers' = Tail(answers)
        /\ UNCHANGED <<conn, issued, wire, overlapped>> /\ ~overlapped
    BY <1>8 DEF ReadTitle
  <2>2. call[c] # 0
    BY <2>1 DEF Base, Typed
  <2>3. ~Dialing
    BY <2>1, <2>2, OnlyOne
  <2>4. answers = <<1>> /\ \A k \in DOMAIN wire : wire[k].method # "Identify"
    BY <2>1, <2>2, <2>3 DEF Attended
  <2>5. Return(c, "title") /\ answers' = <<>>
    BY <1>8, <2>1, <2>4 DEF ReadTitle
  <2>6. "title" \in Result \ {"garbage"}
    BY DEF Result
  <2> QED
    BY <2>1, <2>2, <2>4, <2>5, <2>6, AttendedReturn
<1>9. ASSUME NEW c \in Caller, IOFails(c) PROVE Attended'
  <2>1. /\ call[c] # 0 /\ Return(c, "error") /\ ~overlapped
        /\ UNCHANGED <<issued, wire, answers, overlapped>>
    BY <1>9 DEF IOFails
  <2>2. conn' # "open" /\ conn' \in {conn, "broken"}
    BY <1>9 DEF IOFails
  <2>3. ~Dialing
    BY <2>1, OnlyOne
  <2>4. \A k \in DOMAIN wire : wire[k].method = "Identify" =>
          k = Len(wire) /\ wire[k].len = 0 /\ answers = <<>>
    BY <2>1, <2>3 DEF Attended
  <2>5. "error" \in Result \ {"garbage"}
    BY DEF Result
  <2> QED
    BY <2>1, <2>2, <2>4, <2>5, AttendedReturn
<1>10. CASE Obey
  <2>0. Typed
    BY DEF Base
  <2>1. UNCHANGED <<conn, call, doing, issued, returned, overlapped>> /\ ~overlapped
    BY <1>10, <2>0, Taken
  <2>3. CASE ~Dialing
    <3>0. PICK w, l : w = wire /\ l = Len(w) /\ l \in Nat \ {0} /\ DOMAIN w = 1 .. l
      <4>1. Len(wire) \in Nat \ {0}
        BY <1>10, <2>0, Taken
      <4>2. DOMAIN wire = 1 .. Len(wire)
        BY <2>0 DEF Typed
      <4> QED
        BY <4>1, <4>2
    <3>1. PICK n \in Nat :
            /\ n = IF w[1].method = "Wait" THEN 0 ELSE w[1].len
            /\ n < l
            /\ wire' \in Seq(Unit)
            /\ Len(wire') = l - (n + 1)
            /\ \A k \in DOMAIN wire' : k \in Nat \ {0} /\ k + (n + 1) \in DOMAIN w
                                       /\ wire'[k] = w[k + (n + 1)]
            /\ \/ w[1].method = "Authenticate"
               \/ \E title \in IF w[1].method = "Identify" THEN {<<1, 1>>, <<0>>} ELSE {<<>>} :
                    answers' = answers \o title
      BY <1>10, <2>0, <3>0, Taken
    <3>2. w[1].method # "Authenticate"
      BY <2>3, <3>0 DEF Base, Opened
    <3>3. \A k \in DOMAIN w : w[k].method = "Identify" =>
             /\ k = l /\ w[k].len = 0 /\ answers = <<>>
             /\ (\E c \in Caller : doing[c] = "length") \/ (conn # "open" /\ Quiet)
      BY <2>1, <2>3, <3>0 DEF Attended
    <3>4. CASE w[1].method = "Identify"
      <4>1. /\ 1 = l /\ w[1].len = 0 /\ answers = <<>>
            /\ (\E c \in Caller : doing[c] = "length") \/ (conn # "open" /\ Quiet)
        BY <3>0, <3>3, <3>4
      <4>2. n = 0
        BY <3>1, <3>4, <4>1
      <4>3. Len(wire') = 0
        BY <3>1, <4>1, <4>2
      <4>4. DOMAIN wire' = {}
        BY <3>1, <4>3
      <4>5. answers' \in {<<1, 1>>, <<0>>}
        <5>1. \A t \in {<<1, 1>>, <<0>>} : <<>> \o t = t
          OBVIOUS
        <5> QED
          BY <3>1, <3>2, <3>4, <4>1, <5>1
      <4>6. CASE \E c \in Caller : doing[c] = "length"
        <5>1. PICK c \in Caller : doing[c] = "length"
          BY <4>6
        <5>2. call[c] # 0
          BY <5>1 DEF Base, Typed
        <5>3. ~Quiet /\ \A d \in Caller \ {c} : call[d] = 0 /\ doing[d] = "header"
          BY <2>1, <5>2, OnlyOne
        <5>4. \A i \in DOMAIN returned : returned[i] # "garbage"
          BY <2>1, <2>3 DEF Attended
        <5>5. ~Quiet'
          BY <2>1, <5>3 DEF Quiet
        <5> QED
          BY <2>1, <4>4, <4>5, <5>1, <5>3, <5>4, <5>5 DEF Attended
      <4>7. CASE conn # "open" /\ Quiet
        <5>1. \A i \in DOMAIN returned : returned[i] # "garbage"
          BY <2>1, <2>3 DEF Attended
        <5> QED
          BY <2>1, <4>4, <4>7, <5>1 DEF Attended, Quiet
      <4> QED
        BY <4>1, <4>6, <4>7
    <3>5. CASE w[1].method # "Identify"
      <4>1. answers' = answers
        <5>1. answers \in Seq({0, 1}) /\ answers' = answers \o <<>>
          BY <3>1, <3>2, <3>5 DEF Base, Typed
        <5> QED
          BY <5>1, ConcatEmptySeq
      <4>2. \A k \in DOMAIN wire' : wire'[k].method = "Identify" =>
               /\ k = Len(wire') /\ wire'[k].len = 0 /\ answers = <<>>
               /\ (\E c \in Caller : doing[c] = "length") \/ (conn # "open" /\ Quiet)
        <5> SUFFICES ASSUME NEW k \in DOMAIN wire', wire'[k].method = "Identify"
                     PROVE  /\ k = Len(wire') /\ wire'[k].len = 0 /\ answers = <<>>
                            /\ (\E c \in Caller : doing[c] = "length") \/ (conn # "open" /\ Quiet)
          OBVIOUS
        <5>1. k \in Nat /\ k + (n + 1) \in DOMAIN w /\ wire'[k] = w[k + (n + 1)]
          BY <3>1
        <5>2. PICK j \in DOMAIN w : j = k + (n + 1)
          BY <5>1
        <5>3. /\ j = l /\ w[j].len = 0 /\ answers = <<>>
              /\ (\E c \in Caller : doing[c] = "length") \/ (conn # "open" /\ Quiet)
          BY <3>3, <5>1, <5>2
        <5>4. k = l - (n + 1)
          BY <3>0, <5>1, <5>2, <5>3
        <5> QED
          BY <3>1, <5>1, <5>2, <5>3, <5>4
      <4> QED
        BY <2>1, <2>3, <4>1, <4>2 DEF Attended, Quiet
    <3> QED
      BY <3>4, <3>5
  <2>4. CASE Dialing
    BY <2>1, <2>4 DEF Attended, Dialing
  <2> QED
    BY <2>3, <2>4
<1>11. CASE Stray
  <2>1. UNCHANGED <<conn, overlapped>>
    BY <1>11 DEF Stray
  <2> QED
    BY <1>11, <2>1 DEF Attended, Dialing
<1> QED
  BY <1>1, <1>2, <1>3, <1>4, <1>5, <1>6, <1>7, <1>8, <1>9, <1>10, <1>11 DEF RawNext

-----------------------------------------------------------------------------
(* The stream of commands, in terms of the units on the wire and the calls. *)

LEMMA CallType ==
  ASSUME NEW s \in Seq(Request), NEW i \in 1 .. Len(s)
  PROVE  /\ s[i] \in Request /\ Size(s, i) \in Nat
         /\ Header(s, i) \in Unit
         /\ Header(s, i).of = i /\ Header(s, i).method = s[i][1]
         /\ Header(s, i).len = LengthField(s[i])
         /\ Header(s, i).method # "data" /\ Header(s, i).method # "Authenticate"
<1>1. PICK r \in Request : r = s[i]
  BY ElementOfSeq
<1>2. i \in Nat
  OBVIOUS
<1>3. /\ r[1] # "data" /\ r[1] # "Authenticate" /\ PayloadLen(r) \in Nat
      /\ HeaderUnit(i, r) \in Unit
  BY <1>2, RequestType, UnitsType
<1>4. HeaderUnit(i, r) = [of |-> i, method |-> r[1], len |-> LengthField(r)]
  BY DEF HeaderUnit
<1> QED
  BY <1>1, <1>3, <1>4 DEF Size, Header

\* A call adds to the calls.
LEMMA CallsGrow ==
  ASSUME NEW s, NEW t, NEW w \in Seq(Unit), NEW o \in Nat, NEW m \in Nat,
         \A i \in 1 .. m : t[i] = s[i], Blocks(w, s, o, m)
  PROVE  /\ Blocks(w, t, o, m)
         /\ Cut(w, t, m) => Cut(w, s, m)
<1>1. \A i \in 1 .. m : Size(t, i) = Size(s, i) /\ Header(t, i) = Header(s, i)
  BY DEF Size, Header
<1>2. ASSUME NEW k \in DOMAIN w, NEW i \in 1 .. m, BlockAt(w, s, k, i, m)
      PROVE  BlockAt(w, t, k, i, m)
  <2>1. i < m => i + 1 \in 1 .. m
    OBVIOUS
  <2> QED
    BY <1>1, <1>2, <2>1 DEF BlockAt
<1>3. w # <<>> => o + 1 \in 1 .. m /\ m \in 1 .. m
  BY DEF Blocks
<1> QED
  BY <1>1, <1>2, <1>3 DEF Blocks, Cut

\* The header of the next call is written.
LEMMA HeaderWritten ==
  ASSUME NEW s \in Seq(Request), NEW w \in Seq(Unit), NEW o \in Nat, NEW m \in Nat,
         m + 1 <= Len(s), Blocks(w, s, o, m), ~Cut(w, s, m)
  PROVE  LET z == Append(w, Header(s, m + 1)) IN
         /\ Blocks(z, s, o, m + 1)
         /\ Cut(z, s, m + 1) <=> Size(s, m + 1) > 0
<1>1. PICK l, h, u : /\ l = Len(w) /\ l \in Nat /\ h = m + 1 /\ h \in 1 .. Len(s) /\ h \in Nat
                     /\ u = Header(s, h) /\ u \in Unit /\ u.method # "data"
  <2>1. PICK l \in Nat : l = Len(w)
    OBVIOUS
  <2>2. m + 1 \in 1 .. Len(s) /\ m + 1 \in Nat
    OBVIOUS
  <2> QED
    BY <2>1, <2>2, CallType
<1>2. PICK z : z = Append(w, u)
  OBVIOUS
<1>3. /\ Len(z) = l + 1 /\ z \in Seq(Unit)
      /\ \A k \in 1 .. l : z[k] = w[k]
      /\ z[l + 1] = u
      /\ \A k \in DOMAIN z : k \in 1 .. l \/ k = l + 1
  BY <1>1, <1>2, Extended
<1>4. z # <<>> /\ o < h /\ z[1] = Header(s, o + 1)
  <2>1. z # <<>>
    BY <1>1, <1>3
  <2>2. CASE w = <<>>
    <3>1. o = m /\ l = 0
      BY <1>1, <2>2 DEF Blocks
    <3> QED
      BY <1>1, <1>3, <2>1, <3>1
  <2>3. CASE w # <<>>
    <3>1. o < m /\ w[1] = Header(s, o + 1)
      BY <2>3 DEF Blocks
    <3>2. 1 \in 1 .. l
      BY <1>1, <2>3
    <3> QED
      BY <1>1, <1>3, <2>1, <3>1, <3>2
  <2> QED
    BY <2>2, <2>3
<1>5. ASSUME NEW k \in 1 .. l, NEW i \in 1 .. m, BlockAt(w, s, k, i, m)
      PROVE  BlockAt(z, s, k, i, h)
  <2>1. PICK n \in Nat : n = Size(s, i)
    <3>1. i \in 1 .. Len(s)
      OBVIOUS
    <3> QED
      BY <3>1, CallType
  <2>2. k # l + 1 /\ i < h /\ z[k] = Header(s, i)
    BY <1>1, <1>3, <1>5 DEF BlockAt
  <2>3. CASE k = l
    <3>1. i = m /\ w[l] = Header(s, i)
      BY <1>1, <1>5, <2>3 DEF BlockAt
    <3>2. w[l].method # "data" /\ w # <<>>
      <4>1. i \in 1 .. Len(s)
        OBVIOUS
      <4> QED
        BY <1>1, <3>1, <4>1, CallType
    <3>3. n = 0
      BY <1>1, <2>1, <3>1, <3>2 DEF Cut
    <3>4. i + 1 = h /\ k + n + 1 = l + 1
      BY <1>1, <2>3, <3>1, <3>3
    <3> QED
      BY <1>1, <1>3, <2>1, <2>2, <2>3, <3>3, <3>4 DEF BlockAt
  <2>4. CASE k # l
    <3>1. /\ k + n <= l /\ \A j \in 1 .. n : w[k + j] = Datum(i)
          /\ k + n = l => i = m
          /\ k + n # l => i < m /\ w[k + n + 1] = Header(s, i + 1)
      BY <1>1, <1>5, <2>1, <2>4 DEF BlockAt
    <3>2. k + n <= l + 1 /\ k + n # l + 1
      BY <1>1, <3>1
    <3>3. \A j \in 1 .. n : k + j \in 1 .. l
      BY <1>1, <3>1
    <3>4. \A j \in 1 .. n : z[k + j] = Datum(i)
      BY <1>3, <3>1, <3>3
    <3>5. z[k + n + 1] = Header(s, i + 1)
      <4>1. CASE k + n = l
        BY <1>1, <1>3, <3>1, <4>1
      <4>2. CASE k + n # l
        <5>1. k + n + 1 \in 1 .. l
          BY <1>1, <3>1, <4>2
        <5> QED
          BY <1>3, <3>1, <4>2, <5>1
      <4> QED
        BY <4>1, <4>2
    <3> QED
      BY <1>3, <2>1, <2>2, <3>2, <3>4, <3>5 DEF BlockAt
  <2> QED
    BY <2>3, <2>4
<1>6. BlockAt(z, s, l + 1, h, h)
  BY <1>1, <1>3 DEF BlockAt
<1>7. ASSUME NEW k \in DOMAIN z, z[k].method # "data" PROVE \E i \in 1 .. h : BlockAt(z, s, k, i, h)
  <2>1. CASE k \in 1 .. l
    <3>1. PICK i \in 1 .. m : BlockAt(w, s, k, i, m)
      <4>1. k \in DOMAIN w /\ w[k].method # "data"
        BY <1>1, <1>3, <1>7, <2>1
      <4> QED
        BY <4>1 DEF Blocks
    <3>2. i \in 1 .. h
      BY <1>1
    <3> QED
      BY <1>5, <2>1, <3>1, <3>2
  <2>2. CASE k = l + 1
    <3>1. h \in 1 .. h
      BY <1>1
    <3> QED
      BY <1>6, <2>2, <3>1
  <2> QED
    BY <1>3, <2>1, <2>2
<1>8. Blocks(z, s, o, h)
  BY <1>4, <1>7 DEF Blocks
<1>9. Cut(z, s, h) <=> Size(s, h) > 0
  BY <1>1, <1>3, <1>4 DEF Cut
<1> QED
  BY <1>1, <1>2, <1>8, <1>9


\* The payload of the last command is written.
LEMMA PayloadWritten ==
  ASSUME NEW s \in Seq(Request), NEW w \in Seq(Unit), NEW o \in Nat, NEW m \in 1 .. Len(s),
         Blocks(w, s, o, m), Cut(w, s, m)
  PROVE  LET z == w \o PayloadUnits(m, s[m]) IN Blocks(z, s, o, m) /\ ~Cut(z, s, m)
<1>1. PICK l, p, v, z :
        /\ l = Len(w) /\ l \in Nat \ {0} /\ w[l].method # "data" /\ DOMAIN w = 1 .. l
        /\ p = Size(s, m) /\ p \in Nat \ {0}
        /\ v = PayloadUnits(m, s[m]) /\ v \in Seq(Unit) /\ Len(v) = p
        /\ \A j \in 1 .. p : v[j] = Datum(m)
        /\ z = w \o v
  <2>1. Len(w) \in Nat \ {0} /\ w[Len(w)].method # "data" /\ DOMAIN w = 1 .. Len(w)
    BY DEF Cut
  <2>2. Size(s, m) \in Nat \ {0} /\ s[m] \in Request /\ m \in Nat
    BY CallType DEF Cut
  <2>3. /\ PayloadUnits(m, s[m]) \in Seq(Unit) /\ Len(PayloadUnits(m, s[m])) = Size(s, m)
        /\ \A j \in 1 .. Size(s, m) : PayloadUnits(m, s[m])[j] = Datum(m)
    BY <2>2, UnitsType DEF Size
  <2> QED
    BY <2>1, <2>2, <2>3
<1>2. /\ Len(z) = l + p /\ z \in Seq(Unit)
      /\ \A k \in 1 .. l : z[k] = w[k]
      /\ \A j \in 1 .. p : z[l + j] = v[j]
      /\ \A k \in DOMAIN z : k \in 1 .. l \/ \E j \in 1 .. p : k = l + j
  <2>1. w \in Seq(Unit) /\ v \in Seq(Unit) /\ l = Len(w) /\ p = Len(v) /\ z = w \o v
    BY <1>1
  <2> QED
    BY <2>1, Joined
<1>3. Datum(m).method = "data"
  BY DEF Datum
<1>4. z # <<>> /\ o < m /\ z[1] = Header(s, o + 1)
  <2>1. w # <<>> /\ o < m /\ w[1] = Header(s, o + 1)
    BY DEF Cut, Blocks
  <2>2. z # <<>> /\ 1 \in 1 .. l
    BY <1>1, <1>2
  <2> QED
    BY <1>2, <2>1, <2>2
<1>5. ASSUME NEW k \in 1 .. l, NEW i \in 1 .. m, BlockAt(w, s, k, i, m)
      PROVE  BlockAt(z, s, k, i, m)
  <2>1. PICK n \in Nat : n = Size(s, i)
    <3>1. i \in 1 .. Len(s)
      OBVIOUS
    <3> QED
      BY <3>1, CallType
  <2>2. k # l + p /\ z[k] = Header(s, i)
    BY <1>1, <1>2, <1>5 DEF BlockAt
  <2>3. CASE k = l
    <3>1. i = m /\ n = p
      BY <1>1, <1>5, <2>1, <2>3 DEF BlockAt
    <3>2. \A j \in 1 .. p : z[k + j] = Datum(m)
      BY <1>1, <1>2, <2>3
    <3> QED
      BY <1>1, <1>2, <2>1, <2>2, <2>3, <3>1, <3>2 DEF BlockAt
  <2>4. CASE k # l
    <3>1. /\ k + n <= l /\ \A j \in 1 .. n : w[k + j] = Datum(i)
          /\ k + n # l => i < m /\ w[k + n + 1] = Header(s, i + 1)
      BY <1>1, <1>5, <2>1, <2>4 DEF BlockAt
    <3>2. k + n # l
      <4> SUFFICES ASSUME k + n = l PROVE FALSE
        OBVIOUS
      <4>1. n \in 1 .. n
        BY <2>4
      <4>2. w[l] = Datum(i)
        BY <3>1, <4>1
      <4> QED
        BY <1>1, <4>2 DEF Datum
    <3>3. \A j \in 1 .. n : k + j \in 1 .. l
      BY <1>1, <3>1
    <3>4. \A j \in 1 .. n : z[k + j] = Datum(i)
      BY <1>2, <3>1, <3>3
    <3>5. k + n + 1 \in 1 .. l
      BY <1>1, <3>1, <3>2
    <3>6. z[k + n + 1] = Header(s, i + 1) /\ i < m
      BY <1>2, <3>1, <3>2, <3>5
    <3>7. k + n <= l + p /\ k + n # l + p
      BY <1>1, <3>1
    <3> QED
      BY <1>2, <2>1, <2>2, <3>4, <3>6, <3>7 DEF BlockAt
  <2> QED
    BY <2>3, <2>4
<1>6. ASSUME NEW k \in DOMAIN z, z[k].method # "data" PROVE \E i \in 1 .. m : BlockAt(z, s, k, i, m)
  <2>1. k \in 1 .. l
    <3>1. k \in 1 .. l \/ \E j \in 1 .. p : k = l + j
      BY <1>2, <1>6, Zenon
    <3>2. ASSUME NEW j \in 1 .. p, k = l + j PROVE FALSE
      <4>1. z[k] = Datum(m)
        BY <1>1, <1>2, <3>2, Zenon
      <4> QED
        BY <1>3, <1>6, <4>1, Zenon
    <3> QED
      BY <3>1, <3>2, Zenon
  <2>2. PICK i \in 1 .. m : BlockAt(w, s, k, i, m)
    <3>1. k \in DOMAIN w /\ w[k].method # "data"
      BY <1>1, <1>2, <1>6, <2>1
    <3> QED
      BY <3>1 DEF Blocks
  <2> QED
    BY <1>5, <2>1, <2>2
<1>7. Blocks(z, s, o, m)
  BY <1>4, <1>6 DEF Blocks
<1>8. ~Cut(z, s, m)
  <2>1. z[l + p] = Datum(m)
    BY <1>1, <1>2
  <2> QED
    BY <1>2, <1>3, <2>1 DEF Cut
<1> QED
  BY <1>1, <1>7, <1>8




\* Place k of the r behind those taken off was place h of l; p more follow it.
Moved(n, k, h, l, r, p) ==
  /\ n \in Nat /\ k \in Nat \ {0} /\ l \in Nat /\ r \in Nat /\ p \in Nat
  /\ h = k + (n + 1) /\ r = l - (n + 1) /\ h + p <= l

LEMMA Shifted ==
  ASSUME NEW n, NEW k, NEW h, NEW l, NEW r, NEW p, Moved(n, k, h, l, r, p)
  PROVE  /\ k + p <= r /\ (h + p = l <=> k + p = r)
         /\ \A j \in 1 .. p : k + j \in 1 .. r /\ (k + j) + (n + 1) = h + j
         /\ k + p # r => k + p + 1 \in 1 .. r /\ (k + p + 1) + (n + 1) = h + p + 1
BY DEF Moved

\* The units v are what is left of w when the first and the n behind it are taken.
Rest(v, w, n) ==
  /\ Len(v) = Len(w) - (n + 1)
  /\ \A k \in DOMAIN v : k \in Nat \ {0} /\ k + (n + 1) \in DOMAIN w /\ v[k] = w[k + (n + 1)]

\* Behind the first unit come n of the payload of call i.
PayloadFirst(w, i, n) == \A j \in 1 .. n : j + 1 \in DOMAIN w /\ w[j + 1] = Datum(i)

\* The device takes the first command on the wire, with its payload.
LEMMA CommandTaken ==
  ASSUME NEW s \in Seq(Request), NEW w \in Seq(Unit), NEW o \in Nat, NEW m \in 0 .. Len(s),
         Blocks(w, s, o, m), w # <<>>,
         NEW n \in Nat, n = Size(s, o + 1),
         NEW v \in Seq(Unit), Rest(v, w, n)
  PROVE  /\ Blocks(v, s, o + 1, m)
         /\ Cut(v, s, m) <=> Cut(w, s, m)
         /\ o + 1 \in 1 .. m
         /\ PayloadFirst(w, o + 1, n)
<1>1. PICK l, q : l = Len(w) /\ l \in Nat \ {0} /\ DOMAIN w = 1 .. l /\ q = o + 1 /\ q \in 1 .. m
                  /\ w[1] = Header(s, q)
  <2>1. Len(w) \in Nat \ {0} /\ DOMAIN w = 1 .. Len(w)
    OBVIOUS
  <2>2. o + 1 \in 1 .. m /\ w[1] = Header(s, o + 1)
    BY DEF Blocks
  <2> QED
    BY <2>1, <2>2
<1>2. Len(v) = l - (n + 1) /\ Len(v) \in Nat /\ n + 1 <= l /\ DOMAIN v = 1 .. Len(v)
  BY <1>1 DEF Rest
<1>9. PICK r \in Nat : /\ r = Len(v) /\ r = l - (n + 1) /\ DOMAIN v = 1 .. r
                       /\ l \in Nat \ {0} /\ n + 1 <= l /\ n \in Nat
  BY <1>1, <1>2
<1>3. \A i \in 1 .. m : i \in 1 .. Len(s)
  OBVIOUS
<1>4. BlockAt(w, s, 1, q, m)
  <2>1. w[1].method # "data" /\ w[1].of = q
    BY <1>1, <1>3, CallType
  <2>2. PICK i \in 1 .. m : BlockAt(w, s, 1, i, m)
    <3>1. \A k \in DOMAIN w : w[k].method # "data" => \E i \in 1 .. m : BlockAt(w, s, k, i, m)
      BY DEF Blocks
    <3>2. 1 \in DOMAIN w
      BY <1>1
    <3> QED
      BY <2>1, <3>1, <3>2
  <2>3. w[1].of = i
    BY <1>3, <2>2, CallType DEF BlockAt
  <2> QED
    BY <2>1, <2>2, <2>3
<1>5. \A j \in 1 .. n : j + 1 \in DOMAIN w /\ w[j + 1] = Datum(q)
  <2>1. CASE l = 1
    BY <1>1, <1>2, <2>1
  <2>2. CASE l # 1
    <3>1. \A j \in 1 .. n : w[1 + j] = Datum(q)
      BY <1>1, <1>4, <2>2 DEF BlockAt
    <3>2. \A j \in 1 .. n : j + 1 \in 1 .. l /\ j + 1 = 1 + j
      BY <1>1, <1>2
    <3> QED
      BY <1>1, <3>1, <3>2
  <2> QED
    BY <2>1, <2>2
<1>0. \A k \in DOMAIN v : \E h \in DOMAIN w : h = k + (n + 1) /\ v[k] = w[h]
  BY DEF Rest
<1>6. CASE n + 1 = l
  <2>1. v = <<>>
    BY <1>2, <1>6
  <2>2. q = m
    BY <1>1, <1>2, <1>4, <1>6 DEF BlockAt
  <2>3. ~Cut(w, s, m)
    <3>1. CASE n = 0
      <4>1. Size(s, m) = 0
        BY <1>1, <2>2, <3>1
      <4> QED
        BY <4>1 DEF Cut
    <3>2. CASE n # 0
      <4>1. n \in 1 .. n
        BY <3>2
      <4>2. w[l] = Datum(q)
        BY <1>5, <1>6, <4>1
      <4> QED
        BY <1>1, <4>2 DEF Cut, Datum
    <3> QED
      BY <3>1, <3>2
  <2>4. ~Cut(v, s, m)
    BY <2>1 DEF Cut
  <2>5. Blocks(v, s, q, m)
    <3>1. DOMAIN v = {}
      BY <2>1
    <3> QED
      BY <2>1, <2>2, <3>1 DEF Blocks
  <2> QED
    BY <1>1, <1>5, <2>3, <2>4, <2>5 DEF PayloadFirst
<1>7. CASE n + 1 # l
  <2>1. l # 1 /\ 1 + n # l /\ 1 \in DOMAIN v /\ Len(v) \in DOMAIN v
    <3>1. l # 1 /\ 1 + n # l /\ 1 \in 1 .. r /\ r \in 1 .. r
      BY <1>7, <1>9
    <3> QED
      BY <1>9, <3>1
  <2>2. q < m /\ w[1 + n + 1] = Header(s, q + 1)
    BY <1>1, <1>4, <2>1 DEF BlockAt
  <2>3. v # <<>> /\ v[1] = Header(s, q + 1)
    <3>1. PICK h \in DOMAIN w : h = 1 + (n + 1) /\ v[1] = w[h]
      BY <1>0, <2>1
    <3>2. h = 1 + n + 1
      BY <3>1
    <3> QED
      BY <2>1, <2>2, <3>1, <3>2
  <2>4. v[Len(v)] = w[l]
    <3>1. PICK h \in DOMAIN w : h = Len(v) + (n + 1) /\ v[Len(v)] = w[h]
      BY <1>0, <2>1
    <3>2. h = l
      BY <1>1, <1>2, <3>1
    <3> QED
      BY <3>1, <3>2
  <2>5. Cut(v, s, m) <=> Cut(w, s, m)
    BY <1>1, <2>3, <2>4 DEF Cut
  <2>6. ASSUME NEW k \in DOMAIN v, v[k].method # "data" PROVE \E i \in 1 .. m : BlockAt(v, s, k, i, m)
    <3>1. PICK h \in DOMAIN w : h = k + (n + 1) /\ v[k] = w[h] /\ k \in Nat \ {0}
      BY DEF Rest
    <3>2. PICK i \in 1 .. m : BlockAt(w, s, h, i, m)
      BY <2>6, <3>1 DEF Blocks
    <3>3. PICK p \in Nat : p = Size(s, i)
      BY <1>3, CallType
    <3>4. h = l <=> k = Len(v)
      <4>2. ASSUME h = l PROVE k = r
        BY <1>9, <3>1, <4>2
      <4>3. ASSUME k = r PROVE h = l
        BY <1>9, <3>1, <4>3
      <4> QED
        BY <1>9, <4>2, <4>3
    <3>5. v[k] = Header(s, i) /\ (k = Len(v) => i = m)
      BY <1>1, <3>1, <3>2, <3>4 DEF BlockAt
    <3>6. ASSUME k # Len(v)
          PROVE  /\ k + p <= Len(v)
                 /\ \A j \in 1 .. p : v[k + j] = Datum(i)
                 /\ k + p = Len(v) => i = m
                 /\ k + p # Len(v) => i < m /\ v[k + p + 1] = Header(s, i + 1)
      <4>1. /\ h + p <= l
            /\ \A j \in 1 .. p : w[h + j] = Datum(i)
            /\ h + p = l => i = m
            /\ h + p # l => i < m /\ w[h + p + 1] = Header(s, i + 1)
        BY <1>1, <3>2, <3>3, <3>4, <3>6 DEF BlockAt
      <4>0. h + p <= l
        BY <4>1
      <4>2. /\ k + p <= r /\ (h + p = l <=> k + p = r)
            /\ \A j \in 1 .. p : k + j \in 1 .. r /\ (k + j) + (n + 1) = h + j
            /\ k + p # r => k + p + 1 \in 1 .. r /\ (k + p + 1) + (n + 1) = h + p + 1
        <5>1. l \in Nat /\ r = l - (n + 1) /\ h = k + (n + 1) /\ k \in Nat \ {0}
          BY <1>9, <3>1
        <5>2. p \in Nat /\ r \in Nat
          BY <1>9, <3>3
        <5>3. l \in Nat /\ k \in Nat \ {0} /\ h = k + (n + 1) /\ r = l - (n + 1)
          BY <5>1
        <5>4. Moved(n, k, h, l, r, p)
          BY <4>0, <5>2, <5>3 DEF Moved
        <5> QED
          BY <5>4, Shifted
      <4>3. ASSUME NEW j \in 1 .. p PROVE v[k + j] = Datum(i)
        <5>1. k + j \in DOMAIN v /\ (k + j) + (n + 1) = h + j
          BY <1>9, <4>2
        <5>2. PICK g \in DOMAIN w : g = (k + j) + (n + 1) /\ v[k + j] = w[g]
          BY <1>0, <5>1
        <5> QED
          BY <4>1, <5>1, <5>2
      <4>4. ASSUME k + p # Len(v) PROVE v[k + p + 1] = Header(s, i + 1)
        <5>1. k + p + 1 \in DOMAIN v /\ (k + p + 1) + (n + 1) = h + p + 1
          BY <1>9, <4>2, <4>4
        <5>2. PICK g \in DOMAIN w : g = (k + p + 1) + (n + 1) /\ v[k + p + 1] = w[g]
          BY <1>0, <5>1
        <5> QED
          BY <1>9, <4>1, <4>2, <4>4, <5>1, <5>2
      <4> QED
        BY <1>9, <4>1, <4>2, <4>3, <4>4
    <3> QED
      BY <3>3, <3>5, <3>6 DEF BlockAt
  <2>7. Blocks(v, s, q, m)
    BY <2>2, <2>3, <2>6 DEF Blocks
  <2> QED
    BY <1>1, <1>5, <2>5, <2>7 DEF PayloadFirst
<1> QED
  BY <1>6, <1>7


-----------------------------------------------------------------------------
(* The stream of commands in the steps.                                    *)

LEMMA Domains ==
  ASSUME Typed
  PROVE  /\ DOMAIN issued = 1 .. Len(issued) /\ DOMAIN obeyed = 1 .. Len(obeyed)
         /\ DOMAIN wire = 1 .. Len(wire)
<1>1. DOMAIN issued = 1 .. Len(issued)
  BY LenProperties DEF Typed
<1>2. DOMAIN obeyed = 1 .. Len(obeyed)
  BY LenProperties DEF Typed
<1>3. DOMAIN wire = 1 .. Len(wire)
  BY LenProperties DEF Typed
<1> QED
  BY <1>1, <1>2, <1>3

LEMMA ObeyedMade ==
  ASSUME Typed, NEW m \in 0 .. Len(issued), Blocks(wire, issued, Len(obeyed), m)
  PROVE  Len(obeyed) <= m /\ DOMAIN obeyed \subseteq DOMAIN issued
<1>1. PICK l, o : l = Len(issued) /\ l \in Nat /\ o = Len(obeyed) /\ o \in Nat
                  /\ DOMAIN obeyed = 1 .. o /\ DOMAIN issued = 1 .. l
  BY Lengths, Domains
<1>2. o <= m
  BY <1>1 DEF Blocks
<1> QED
  BY <1>1, <1>2

\* What the device has obeyed stays what was asked for.
LEMMA AsMadeKept ==
  ASSUME Typed, AsMade, NEW m \in 0 .. Len(issued), Blocks(wire, issued, Len(obeyed), m),
         UNCHANGED <<obeyed, astray>>, \A i \in DOMAIN issued : issued'[i] = issued[i]
  PROVE  AsMade'
<1>1. \A i \in DOMAIN obeyed : issued'[i] = issued[i]
  BY ObeyedMade
<1> QED
  BY <1>1 DEF AsMade

LEMMA StreamCall ==
  ASSUME Base, ~overlapped', NEW m \in 0 .. Len(issued), Stream(m), NEW c \in Caller,
         NEW r \in Request, Call(c, r)
  PROVE  /\ m \in 0 .. Len(issued') /\ Stream(m)'
         /\ \A i \in DOMAIN issued : i \in DOMAIN issued' /\ issued'[i] = issued[i]
<1>0. Typed
  BY DEF Base
<1>1. PICK s, t, l : /\ s = issued /\ s \in Seq(Request) /\ l = Len(s) /\ l \in Nat
                     /\ t = issued' /\ t = Append(s, r) /\ DOMAIN s = 1 .. l
  <2>1. issued \in Seq(Request) /\ issued' = Append(issued, r)
    BY <1>0 DEF Typed, Call
  <2> QED
    BY <1>0, <2>1, Lengths, Domains
<1>2. Len(t) = l + 1 /\ \A i \in 1 .. l : i \in DOMAIN t /\ t[i] = s[i]
  BY <1>1, AppendProperties
<1>3. /\ conn = "open" /\ Quiet /\ UNCHANGED <<conn, doing, wire, obeyed>>
      /\ call' = [call EXCEPT ![c] = Len(t)]
  BY <1>1 DEF Call, Quiet
<1>4. m = l /\ ~Cut(wire, s, m) /\ Blocks(wire, s, Len(obeyed), m)
  BY <1>1, <1>3 DEF Stream
<1>5. Blocks(wire, t, Len(obeyed), m) /\ ~Cut(wire, t, m)
  <2>1. wire \in Seq(Unit) /\ Len(obeyed) \in Nat /\ m \in Nat
    BY <1>0, <1>1, <1>4, Lengths DEF Typed
  <2>2. \A i \in 1 .. m : t[i] = s[i]
    BY <1>2, <1>4
  <2> QED
    BY <1>4, <2>1, <2>2, CallsGrow
<1>6. \A d \in Caller : doing'[d] = "header"
  BY <1>0, <1>3 DEF Typed, Quiet
<1>7. ~Quiet'
  <2>1. call'[c] = l + 1
    BY <1>0, <1>2, <1>3 DEF Typed
  <2> QED
    BY <1>1, <2>1 DEF Quiet
<1>8. m \in 0 .. Len(t) /\ Len(t) = m + 1
  BY <1>1, <1>2, <1>4
<1>9. Stream(m)'
  BY <1>1, <1>3, <1>5, <1>6, <1>7, <1>8 DEF Stream
<1> QED
  BY <1>1, <1>2, <1>8, <1>9

\* A caller returns.
LEMMA StreamReturn ==
  ASSUME Base, ~overlapped, NEW c \in Caller, call[c] # 0, NEW result \in Result, Return(c, result),
         issued' = issued, obeyed' = obeyed,
         NEW m \in 0 .. Len(issued), Len(issued) <= m + 1, Blocks(wire', issued, Len(obeyed), m),
         conn' = "open" => m = Len(issued) /\ ~Cut(wire', issued, m)
  PROVE  Stream(m)'
<1>0. Typed
  BY DEF Base
<1>1. \A d \in Caller : call'[d] = 0
  <2>1. call'[c] = 0 /\ \A d \in Caller \ {c} : call'[d] = call[d]
    BY <1>0, Returns
  <2> QED
    BY <2>1, OnlyOne
<1> QED
  BY <1>1 DEF Stream

LEMMA StreamHeader ==
  ASSUME Base, ~overlapped, NEW m \in 0 .. Len(issued), Stream(m), NEW c \in Caller, WriteHeader(c)
  PROVE  \E h \in 0 .. Len(issued) : Stream(h)'
<1>0. Typed
  BY DEF Base
<1>1. call[c] # 0 /\ doing[c] = "header" /\ UNCHANGED <<conn, issued, obeyed>>
  BY DEF WriteHeader
<1>2. PICK l, h : /\ l = Len(issued) /\ l \in Nat /\ h = m + 1 /\ h = l /\ h \in Nat /\ m \in Nat
                  /\ call[c] = h /\ issued \in Seq(Request) /\ wire \in Seq(Unit)
                  /\ Len(obeyed) \in Nat
  <2>1. m + 1 = Len(issued)
    BY <1>1 DEF Stream
  <2>2. call[c] = Len(issued)
    BY <1>1, OnlyOne
  <2> QED
    BY <1>0, <2>1, <2>2, Lengths DEF Typed
<1>3. ~Cut(wire, issued, m) /\ Blocks(wire, issued, Len(obeyed), m)
  BY <1>1 DEF Stream
<1>4. PICK u, r : u = Header(issued, h) /\ r = issued[h] /\ r = Request1(c) /\ u = HeaderUnit(h, r)
                  /\ wire' = Append(wire, u) /\ Size(issued, h) = PayloadLen(r)
  BY <1>2 DEF WriteHeader, Header, Request1, Size
<1>5. /\ Blocks(wire', issued, Len(obeyed), h)
      /\ Cut(wire', issued, h) <=> PayloadLen(r) > 0
  <2>1. m + 1 <= Len(issued)
    BY <1>2
  <2>2. /\ Blocks(Append(wire, Header(issued, m + 1)), issued, Len(obeyed), m + 1)
        /\ Cut(Append(wire, Header(issued, m + 1)), issued, m + 1) <=> Size(issued, m + 1) > 0
    BY <1>2, <1>3, <2>1, HeaderWritten
  <2> QED
    BY <1>2, <1>4, <2>2
<1>6. h \in 0 .. l /\ l <= h + 1
  BY <1>2
<1>7. CASE PayloadLen(r) > 0
  <2>1. doing' = [doing EXCEPT ![c] = "payload"] /\ UNCHANGED <<call, returned>>
    BY <1>4, <1>7 DEF WriteHeader
  <2>2. doing'[c] = "payload"
    BY <1>0, <2>1, GoesOn DEF Doing
  <2>3. \A d \in Caller \ {c} : call'[d] = 0
    BY <1>1, <2>1, OnlyOne
  <2>4. ~Quiet'
    BY <1>1, <2>1 DEF Quiet
  <2> QED
    BY <1>1, <1>2, <1>5, <1>6, <1>7, <2>2, <2>3, <2>4 DEF Stream
<1>8. CASE ~(PayloadLen(r) > 0) /\ r[1] = "Identify"
  <2>1. doing' = [doing EXCEPT ![c] = "length"] /\ UNCHANGED <<call, returned>>
    BY <1>4, <1>8 DEF WriteHeader
  <2>2. doing'[c] = "length"
    BY <1>0, <2>1, GoesOn DEF Doing
  <2>3. \A d \in Caller \ {c} : call'[d] = 0
    BY <1>1, <2>1, OnlyOne
  <2>4. ~Quiet'
    BY <1>1, <2>1 DEF Quiet
  <2> QED
    BY <1>1, <1>2, <1>5, <1>6, <1>8, <2>2, <2>3, <2>4 DEF Stream
<1>9. CASE ~(PayloadLen(r) > 0) /\ r[1] # "Identify"
  <2>1. Return(c, "nil") /\ "nil" \in Result
    BY <1>4, <1>9 DEF WriteHeader, Result
  <2>2. h \in 0 .. Len(issued) /\ Len(issued) <= h + 1 /\ h = Len(issued)
    BY <1>2, <1>6
  <2>3. Stream(h)'
    BY <1>1, <1>5, <1>9, <2>1, <2>2, StreamReturn
  <2> QED
    BY <2>2, <2>3
<1> QED
  BY <1>7, <1>8, <1>9

LEMMA StreamPayload ==
  ASSUME Base, ~overlapped, NEW m \in 0 .. Len(issued), Stream(m), NEW c \in Caller, WritePayload(c)
  PROVE  Stream(m)'
<1>0. Typed
  BY DEF Base
<1>1. /\ doing[c] = "payload" /\ UNCHANGED <<conn, issued, obeyed>>
      /\ Return(c, "nil") /\ "nil" \in Result
  BY DEF WritePayload, Result
<1>2. call[c] # 0
  BY <1>0, <1>1 DEF Typed
<1>3. m = Len(issued) /\ Cut(wire, issued, m) /\ Blocks(wire, issued, Len(obeyed), m)
  BY <1>1, <1>2 DEF Stream
<1>4. call[c] = m /\ m \in 1 .. Len(issued)
  BY <1>0, <1>2, <1>3, OnlyOne, OwnRequest
<1>5. wire' = wire \o PayloadUnits(m, issued[m])
  BY <1>4 DEF WritePayload, Request1
<1>6. Blocks(wire', issued, Len(obeyed), m) /\ ~Cut(wire', issued, m)
  <2>1. issued \in Seq(Request) /\ wire \in Seq(Unit) /\ Len(obeyed) \in Nat
    BY <1>0, Lengths DEF Typed
  <2> QED
    BY <1>3, <1>4, <1>5, <2>1, PayloadWritten
<1>7. Len(issued) <= m + 1
  BY <1>3, <1>4
<1> QED
  BY <1>1, <1>2, <1>3, <1>6, <1>7, StreamReturn


\* The device obeys the call that is next.
LEMMA StreamObey ==
  ASSUME Base, ~Dialing, NEW m \in 0 .. Len(issued), Stream(m), AsMade, Obey,
         \A i \in DOMAIN issued : Fits(issued[i])
  PROVE  issued' = issued /\ Stream(m)' /\ AsMade'
<1>0. Typed
  BY DEF Base
<1>1. /\ wire # <<>> /\ ~astray
      /\ UNCHANGED <<conn, call, doing, issued, returned, overlapped>>
  BY <1>0, Taken
<1>2. PICK s, w, o, q :
        /\ s = issued /\ w = wire /\ o = Len(obeyed) /\ q = o + 1
        /\ s \in Seq(Request) /\ w \in Seq(Unit) /\ o \in Nat /\ q \in Nat /\ m \in 0 .. Len(s)
  <2>1. issued \in Seq(Request) /\ wire \in Seq(Unit) /\ Len(obeyed) \in Nat
    BY <1>0, Lengths DEF Typed
  <2>2. Len(obeyed) + 1 \in Nat
    BY <2>1
  <2> QED
    BY <2>1, <2>2
<1>3. Blocks(w, s, o, m) /\ w # <<>>
  BY <1>1, <1>2 DEF Stream
<1>4. q \in 1 .. Len(s) /\ w[1] = Header(s, q) /\ Fits(s[q]) /\ s[q] \in Request
  <2>1. q \in 1 .. Len(s) /\ w[1] = Header(s, q)
    BY <1>2, <1>3 DEF Blocks
  <2>2. q \in DOMAIN issued
    BY <1>0, <1>2, <2>1, Domains
  <2> QED
    BY <1>2, <2>1, <2>2, CallType
<1>5. /\ w[1].method = s[q][1] /\ w[1].of = q /\ w[1].len = LengthField(s[q])
      /\ w[1].method # "data" /\ w[1].method # "Authenticate"
  BY <1>2, <1>4, CallType
<1>6. PICK n, v :
        /\ n \in Nat /\ n = IF w[1].method = "Wait" THEN 0 ELSE w[1].len
        /\ n < Len(w)
        /\ v = wire' /\ v \in Seq(Unit) /\ Rest(v, w, n)
        /\ obeyed' = Append(obeyed, [method |-> w[1].method, of |-> w[1].of, len |-> w[1].len,
                                     payload |-> SubSeq(w, 2, n + 1)])
        /\ astray' = astray
  BY <1>0, <1>2, <1>5, Taken DEF Rest
<1>7. n = Size(s, q)
  <2>1. (IF s[q][1] = "Wait" THEN 0 ELSE LengthField(s[q])) = PayloadLen(s[q])
    BY <1>4, RequestType
  <2> QED
    BY <1>5, <1>6, <2>1 DEF Size
<1>8. /\ Blocks(v, s, q, m)
      /\ Cut(v, s, m) <=> Cut(w, s, m)
      /\ q \in 1 .. m
      /\ \A j \in 1 .. n : j + 1 \in DOMAIN w /\ w[j + 1] = Datum(q)
  <2>1. n = Size(s, o + 1) /\ n \in Nat /\ v \in Seq(Unit) /\ Rest(v, w, n)
    BY <1>2, <1>6, <1>7
  <2>2. /\ Blocks(v, s, o + 1, m)
        /\ Cut(v, s, m) <=> Cut(w, s, m)
        /\ o + 1 \in 1 .. m
        /\ \A j \in 1 .. n : j + 1 \in DOMAIN w /\ w[j + 1] = Datum(o + 1)
    <3>1. s \in Seq(Request) /\ w \in Seq(Unit) /\ o \in Nat /\ m \in 0 .. Len(s)
      BY <1>2
    <3>2. Blocks(v, s, o + 1, m)
      BY <1>3, <2>1, <3>1, CommandTaken
    <3>3. Cut(v, s, m) <=> Cut(w, s, m)
      BY <1>3, <2>1, <3>1, CommandTaken
    <3>4. o + 1 \in 1 .. m
      BY <1>2, <1>3 DEF Blocks
    <3>5. PayloadFirst(w, o + 1, n)
      BY <1>3, <2>1, <3>1, CommandTaken
    <3> QED
      BY <3>2, <3>3, <3>4, <3>5 DEF PayloadFirst
  <2> QED
    BY <1>2, <2>2
<1>9. PICK e : /\ e = [method |-> w[1].method, of |-> w[1].of, len |-> w[1].len,
                       payload |-> SubSeq(w, 2, n + 1)]
               /\ obeyed' = Append(obeyed, e)
  BY <1>6
<1>10. e.of = q /\ e.method = s[q][1] /\ e.payload = PayloadUnits(q, s[q])
  <2>1. PICK p : p = n + 1 /\ p \in Nat /\ p <= Len(w) /\ p - 2 + 1 = n /\ (2 <= p <=> n # 0)
    <3>1. PICK l \in Nat : l = Len(w) /\ n < l /\ n \in Nat
      BY <1>2, <1>6
    <3>2. n + 1 \in Nat /\ n + 1 <= l /\ (n + 1) - 2 + 1 = n /\ (2 <= n + 1 <=> n # 0)
      BY <3>1
    <3> QED
      BY <3>1, <3>2
  <2>2. /\ SubSeq(w, 2, p) \in Seq(Unit)
        /\ Len(SubSeq(w, 2, p)) = IF 2 <= p THEN p - 2 + 1 ELSE 0
        /\ \A k \in 1 .. p - 2 + 1 : SubSeq(w, 2, p)[k] = w[2 + k - 1]
    BY <1>2, <2>1, Parts
  <2>3. \A k \in 1 .. n : SubSeq(w, 2, p)[k] = Datum(q)
    <3>1. \A k \in 1 .. n : 2 + k - 1 = k + 1
      BY <1>6
    <3> QED
      BY <1>8, <2>1, <2>2, <3>1
  <2>4. Len(SubSeq(w, 2, p)) = n
    BY <1>6, <2>1, <2>2
  <2>5. /\ PayloadUnits(q, s[q]) \in Seq(Unit) /\ Len(PayloadUnits(q, s[q])) = n
        /\ \A k \in 1 .. n : PayloadUnits(q, s[q])[k] = Datum(q)
    BY <1>2, <1>4, <1>7, UnitsType DEF Size
  <2>6. SubSeq(w, 2, p) = PayloadUnits(q, s[q])
    BY <2>2, <2>3, <2>4, <2>5, SeqEqual
  <2> QED
    BY <1>5, <1>9, <2>1, <2>6
<1>11. /\ Len(obeyed') = q
       /\ DOMAIN obeyed' = 1 .. q
       /\ \A i \in 1 .. o : obeyed'[i] = obeyed[i]
       /\ obeyed'[q] = e
  <2>1. PICK R : obeyed \in Seq(R) /\ e \in R
    <3>1. PICK R : obeyed \in Seq(R)
      BY <1>0 DEF Typed
    <3>2. obeyed \in Seq(R \cup {e})
      BY <3>1
    <3> QED
      BY <3>2
  <2>2. obeyed' \in Seq(R)
    BY <1>9, <2>1, AppendProperties
  <2>3. Len(obeyed') = q /\ obeyed'[q] = e /\ \A i \in 1 .. o : obeyed'[i] = obeyed[i]
    BY <1>2, <1>9, <2>1, AppendProperties
  <2> QED
    BY <2>2, <2>3, LenProperties
<1>12. AsMade'
  <2>1. DOMAIN obeyed = 1 .. o
    BY <1>0, <1>2, Domains
  <2>2. \A i \in 1 .. q : i \in 1 .. o \/ i = q
    BY <1>2
  <2>3. \A i \in 1 .. o : /\ obeyed'[i].of = i /\ obeyed'[i].method = s[i][1]
                          /\ obeyed'[i].payload = PayloadUnits(i, s[i])
    BY <1>2, <1>11, <2>1 DEF AsMade
  <2>4. issued' = s /\ ~astray'
    BY <1>1, <1>2, <1>6
  <2> QED
    BY <1>10, <1>11, <2>2, <2>3, <2>4 DEF AsMade
<1>13. Stream(m)'
  <2>1. /\ UNCHANGED <<conn, call, doing>> /\ issued' = s /\ issued = s /\ wire = w /\ wire' = v
        /\ Len(obeyed') = q
    BY <1>1, <1>2, <1>6, <1>11
  <2>2. Quiet' <=> Quiet
    BY <2>1 DEF Quiet
  <2> QED
    BY <1>8, <2>1, <2>2 DEF Stream
<1> QED
  BY <1>1, <1>12, <1>13

LEMMA StreamingInit == RawInit => Streaming
BY DEF RawInit, Streaming, Fine, Dialing

\* No call is made, and nothing obeyed, before the connection is there.
LEMMA StreamStarts ==
  ASSUME Base, Dial \/ Authenticated, ~Dialing'
  PROVE  Streaming'
<1>1. /\ UNCHANGED <<call, doing, issued, obeyed, astray>> /\ Dialing
  BY DEF Dial, Authenticated, Dialing
<1>2. wire' = <<>>
  <2>1. CASE Dial
    BY <2>1 DEF Dial, Base, Opened, Dialing
  <2>2. CASE Authenticated
    BY <2>2 DEF Authenticated, Base, Opened
  <2> QED
    BY <2>1, <2>2
<1>3. issued' = <<>> /\ obeyed' = <<>> /\ ~astray'
  BY <1>1 DEF Base, Opened
<1>4. \A c \in Caller : call'[c] = 0
  <2> SUFFICES ASSUME NEW c \in Caller, call[c] # 0 PROVE FALSE
    BY <1>1
  <2>1. call[c] \in 1 .. Len(issued)
    BY OwnRequest DEF Base
  <2>2. Len(issued) = 0
    BY <1>1, <1>3
  <2> QED
    BY <2>1, <2>2
<1>5. Blocks(<<>>, <<>>, 0, 0) /\ ~Cut(<<>>, <<>>, 0)
  BY DEF Blocks, Cut
<1>6. Len(issued') = 0 /\ Len(obeyed') = 0
  BY <1>3
<1>7. Stream(0)'
  BY <1>2, <1>3, <1>4, <1>5, <1>6 DEF Stream
<1>8. AsMade'
  BY <1>3 DEF AsMade
<1> QED
  BY <1>6, <1>7, <1>8 DEF Streaming

\* The device goes astray only behind a length that was cut.
LEMMA NotAstray ==
  ASSUME Base, Streaming, Fine
  PROVE  ~Stray
<1>1. PICK m \in 0 .. Len(issued) : Stream(m) /\ AsMade
  BY DEF Streaming
<1> SUFFICES ASSUME Stray PROVE FALSE
  OBVIOUS
<1>2. /\ wire # <<>> /\ wire \in Seq(Unit) /\ Head(wire).method = "data"
      /\ issued \in Seq(Request) /\ Len(obeyed) \in Nat /\ Len(issued) \in Nat
  BY <1>1, Lengths DEF Stray, AsMade, Base, Typed
<1>3. PICK o \in Nat : o = Len(obeyed) /\ o < m /\ wire[1] = Header(issued, o + 1)
  BY <1>1, <1>2 DEF Stream, Blocks
<1>4. o + 1 \in 1 .. Len(issued)
  BY <1>2, <1>3
<1>5. issued[o + 1] \in Request
  BY <1>2, <1>4, ElementOfSeq
<1>6. Header(issued, o + 1).method # "data"
  BY <1>5, RequestType DEF Header, HeaderUnit
<1>7. Head(wire) = wire[1]
  BY <1>2
<1> QED
  BY <1>2, <1>3, <1>6, <1>7

LEMMA StreamingStep ==
  ASSUME Base, Streaming, [RawNext]_rawVars
  PROVE  Streaming'
<1> SUFFICES ASSUME Fine' PROVE AsMade' /\ \E m \in 0 .. Len(issued') : Stream(m)'
  BY DEF Streaming
<1>0. Typed
  BY DEF Base
<1>1. CASE Dial \/ Authenticated
  BY <1>1, StreamStarts DEF Streaming, Fine
<1>2. CASE ~(Dial \/ Authenticated)
  <2>1. ~overlapped' /\ ~Dialing' /\ \A i \in DOMAIN issued' : Fits(issued'[i])
    BY DEF Fine
  <2>2. CASE \E c \in Caller, r \in Request : Call(c, r)
    <3>1. PICK c \in Caller, r \in Request : Call(c, r)
      BY <2>2
    <3>2. conn = "open" /\ ~overlapped /\ UNCHANGED <<obeyed, astray>>
      BY <2>1, <3>1 DEF Call
    <3>3. \A i \in DOMAIN issued : i \in DOMAIN issued' /\ issued'[i] = issued[i]
      <4>1. issued \in Seq(Request) /\ issued' = Append(issued, r)
        BY <1>0, <3>1 DEF Typed, Call
      <4>2. \A i \in 1 .. Len(issued) : issued'[i] = issued[i]
        BY <4>1, AppendProperties
      <4>3. DOMAIN issued' = 1 .. Len(issued) + 1
        BY <4>1, AppendProperties, LenProperties
      <4> QED
        BY <1>0, <4>2, <4>3, Domains, Lengths
    <3>4. PICK m \in 0 .. Len(issued) : Stream(m) /\ AsMade
      BY <2>1, <3>2, <3>3 DEF Streaming, Fine, Dialing
    <3>5. m \in 0 .. Len(issued') /\ Stream(m)'
      BY <2>1, <3>1, <3>4, StreamCall
    <3>6. AsMade'
      <4>1. Blocks(wire, issued, Len(obeyed), m)
        BY <3>4 DEF Stream
      <4> QED
        BY <1>0, <3>2, <3>3, <3>4, <4>1, AsMadeKept
    <3> QED
      BY <3>5, <3>6
  <2>3. CASE ~\E c \in Caller, r \in Request : Call(c, r)
    <3>1. issued' = issued /\ overlapped' = overlapped /\ ~Dialing
      <4>1. issued' = issued /\ overlapped' = overlapped
        BY <1>2, <2>3 DEF RawNext, Close, Obey, Stray, WriteHeader, WritePayload, ReadLength, ReadTitle,
                          IOFails, rawVars
      <4>2. \/ conn' = conn \/ Close \/ \E c \in Caller : IOFails(c)
        BY <1>2, <2>3 DEF RawNext, Obey, Stray, WriteHeader, WritePayload, ReadLength, ReadTitle, rawVars
      <4>3. ASSUME NEW c \in Caller, IOFails(c) PROVE ~Dialing
        BY <2>1, <4>1, <4>3, OnlyOne DEF IOFails
      <4>4. Close => ~Dialing
        BY DEF Close, Dialing
      <4>5. conn' = conn => ~Dialing
        BY <2>1 DEF Dialing
      <4> QED
        BY <4>1, <4>2, <4>3, <4>4, <4>5
    <3>2. ~overlapped /\ (\A i \in DOMAIN issued : Fits(issued[i])) /\ Fine
      BY <2>1, <3>1 DEF Fine
    <3>3. PICK m \in 0 .. Len(issued) : Stream(m) /\ AsMade
      BY <3>2 DEF Streaming
    <3>4. /\ Len(issued) <= m + 1 /\ Blocks(wire, issued, Len(obeyed), m)
          /\ conn = "open" /\ Quiet => m = Len(issued) /\ ~Cut(wire, issued, m)
      BY <3>3 DEF Stream
    <3>5. CASE Obey
      BY <3>1, <3>2, <3>3, <3>5, StreamObey
    <3>12. ~Stray
      BY <3>2, NotAstray
    <3>6. ASSUME UNCHANGED <<obeyed, astray>> PROVE AsMade'
      BY <1>0, <3>1, <3>3, <3>4, <3>6, AsMadeKept
    <3>7. CASE Close \/ UNCHANGED rawVars
      <4>1. /\ UNCHANGED <<call, doing, wire, obeyed, astray>>
            /\ conn' = "open" => conn = "open"
        BY <3>7 DEF Close, rawVars
      <4>2. Quiet' <=> Quiet
        BY <4>1 DEF Quiet
      <4>3. Stream(m)'
        BY <3>1, <3>3, <4>1, <4>2 DEF Stream
      <4> QED
        BY <3>1, <3>6, <4>1, <4>3
    <3>8. ASSUME NEW c \in Caller, WriteHeader(c) PROVE AsMade' /\ \E h \in 0 .. Len(issued) : Stream(h)'
      BY <3>2, <3>3, <3>6, <3>8, StreamHeader DEF WriteHeader
    <3>9. ASSUME NEW c \in Caller, WritePayload(c) PROVE AsMade' /\ Stream(m)'
      BY <3>2, <3>3, <3>6, <3>9, StreamPayload DEF WritePayload
    <3>10. ASSUME NEW c \in Caller, ReadLength(c) \/ ReadTitle(c) PROVE AsMade' /\ Stream(m)'
      <4>1. /\ doing[c] \in {"length", "title"} /\ UNCHANGED <<conn, wire, obeyed, astray>>
            /\ \/ \E result \in Result : Return(c, result)
               \/ doing' = [doing EXCEPT ![c] = "title"] /\ UNCHANGED <<call, returned>>
        BY <3>10 DEF ReadLength, ReadTitle, Result
      <4>2. call[c] # 0
        BY <1>0, <4>1 DEF Typed
      <4>3. m = Len(issued) /\ ~Cut(wire, issued, m)
        BY <3>3, <4>1, <4>2 DEF Stream
      <4>4. CASE \E result \in Result : Return(c, result)
        <5>1. PICK result \in Result : Return(c, result)
          BY <4>4
        <5>2. Stream(m)'
          BY <3>1, <3>2, <3>4, <4>1, <4>2, <4>3, <5>1, StreamReturn
        <5> QED
          BY <3>6, <4>1, <5>2
      <4>5. CASE doing' = [doing EXCEPT ![c] = "title"] /\ UNCHANGED <<call, returned>>
        <5>1. doing'[c] = "title"
          BY <1>0, <4>5, GoesOn DEF Doing
        <5>2. \A d \in Caller \ {c} : call'[d] = 0
          BY <3>2, <4>2, <4>5, OnlyOne
        <5>3. ~Quiet'
          BY <4>2, <4>5 DEF Quiet
        <5>4. Stream(m)'
          BY <3>1, <3>4, <4>1, <4>3, <5>1, <5>2, <5>3 DEF Stream
        <5> QED
          BY <3>6, <4>1, <5>4
      <4> QED
        BY <4>1, <4>4, <4>5
    <3>11. ASSUME NEW c \in Caller, IOFails(c) PROVE AsMade' /\ Stream(m)'
      <4>1. /\ call[c] # 0 /\ UNCHANGED <<wire, obeyed, astray>> /\ conn' # "open"
            /\ Return(c, "error") /\ "error" \in Result
        BY <3>11 DEF IOFails, Result
      <4>2. Stream(m)'
        BY <3>1, <3>2, <3>4, <4>1, StreamReturn
      <4> QED
        BY <3>6, <4>1, <4>2
    <3> QED
      BY <1>2, <2>3, <3>1, <3>5, <3>7, <3>8, <3>9, <3>10, <3>11, <3>12 DEF RawNext
  <2> QED
    BY <2>2, <2>3
<1> QED
  BY <1>1, <1>2

\* As long as no two calls overlap and every payload is shorter than its length field can
\* count: the device obeys the calls of the methods of raw.go in the order they were made,
\* each with its own method and the whole of its own payload, and is never left with a
\* byte of a payload where it expects a header.
THEOREM CallsAreObeyed == RawSpec => []Obeyed
<1>1. RawInit => Base /\ Streaming
  BY TypedInit, StreamingInit DEF Base
<1>2. Base /\ Streaming /\ [RawNext]_rawVars => Base' /\ Streaming'
  BY BaseStep, StreamingStep
<1>3. Base /\ Streaming => Obeyed
  <2> SUFFICES ASSUME Base, Streaming PROVE Obeyed
    OBVIOUS
  <2>1. CASE Dialing
    <3>1. obeyed = <<>> /\ ~astray
      BY <2>1 DEF Base, Opened
    <3> QED
      BY <3>1 DEF Obeyed
  <2>2. CASE ~Dialing
    BY <2>2 DEF Streaming, Fine, AsMade, Obeyed
  <2> QED
    BY <2>1, <2>2
<1> QED
  BY <1>1, <1>2, <1>3, PTL DEF RawSpec

-----------------------------------------------------------------------------
(* Answers, of a session whose payloads fit.                               *)

Waiting == (\A i \in DOMAIN issued : Fits(issued[i])) => Attended

LEMMA WaitingStep ==
  ASSUME Base, Streaming, Waiting, [RawNext]_rawVars
  PROVE  Waiting'
<1> SUFFICES ASSUME \A i \in DOMAIN issued' : Fits(issued'[i]) PROVE Attended'
  BY DEF Waiting
<1>1. \A i \in DOMAIN issued : Fits(issued[i])
  <2>1. CASE issued' = issued
    BY <2>1
  <2>2. CASE \E c \in Caller, r \in Request : Call(c, r)
    <3>1. PICK r \in Request : issued' = Append(issued, r)
      BY <2>2 DEF Call
    <3>2. issued \in Seq(Request) /\ issued' \in Seq(Request)
      BY <3>1, AppendProperties DEF Base, Typed
    <3>3. /\ DOMAIN issued = 1 .. Len(issued) /\ Len(issued) \in Nat
          /\ DOMAIN issued' = 1 .. Len(issued) + 1
      BY <3>1, <3>2, AppendProperties, LenProperties
    <3>4. \A i \in 1 .. Len(issued) : i \in 1 .. Len(issued) + 1 /\ issued'[i] = issued[i]
      BY <3>1, <3>2, <3>3, AppendProperties
    <3> QED
      BY <3>3, <3>4
  <2> QED
    BY <2>1, <2>2 DEF RawNext, Dial, Authenticated, Close, Obey, Stray, WriteHeader, WritePayload,
                      ReadLength, ReadTitle, IOFails, rawVars
<1>2. ~overlapped /\ ~Dialing => ~Stray
  BY <1>1, NotAstray DEF Fine
<1> QED
  BY <1>1, <1>2, AttendedStep DEF Waiting

\* As long as no two calls overlap and every payload is shorter than its length field can
\* count, of any number of callers and calls: a title that Identify (raw.go) returns is one
\* that the device sent as a title, and between two calls no answer is left to be read. The
\* device may take the rest of a payload whose length was cut for commands and answer them.
THEOREM AnswersAreOwn == RawSpec => []AnswersOwn
<1>1. RawInit => Base /\ Streaming /\ Waiting
  BY TypedInit, StreamingInit, AttendedInit DEF Base, Waiting
<1>2. Base /\ Streaming /\ Waiting /\ [RawNext]_rawVars => Base' /\ Streaming' /\ Waiting'
  BY BaseStep, StreamingStep, WaitingStep
<1>3. Base /\ Waiting => AnswersOwn
  <2> SUFFICES ASSUME Base, Attended, ~overlapped
               PROVE  /\ \A i \in DOMAIN returned : returned[i] # "garbage"
                      /\ conn = "open" /\ Quiet => answers = <<>>
    BY DEF AnswersOwn, Quiet, Waiting
  <2>1. CASE ~Dialing
    BY <2>1 DEF Attended
  <2>2. CASE Dialing
    <3>1. Len(returned) = 0
      BY <2>2 DEF Base, Opened, Typed
    <3>2. DOMAIN returned = {}
      BY <3>1 DEF Base, Typed
    <3> QED
      BY <2>2, <3>2 DEF Dialing
  <2> QED
    BY <2>1, <2>2
<1> QED
  BY <1>1, <1>2, <1>3, PTL DEF RawSpec
================================================================================
