-------------------------- MODULE TcpFramingProofs --------------------------
(***************************************************************************)
(* Theorems about TcpFraming, for any sizes of header and packets, any     *)
(* number of packets and of broken connections.                            *)
(***************************************************************************)
EXTENDS TcpFraming, SequenceTheorems, TLAPS

USE SizesAssumption, BuildAssumption

-----------------------------------------------------------------------------
(* Lengths, and what Recv does to the two sequences.                       *)

LEMMA Lengths ==
  /\ Numbers = 1 .. Len(Bodies) /\ Len(Bodies) \in Nat
  /\ \A n \in Numbers : Length(n) \in Header .. MaxPack
  /\ \A c \in Cells : c = [msg |-> c.msg, at |-> c.at]
BY DEF Numbers, Length, Cells

LEMMA AfterCell ==
  ASSUME NEW c \in Cells, c.msg \in Numbers, c.at <= Length(c.msg)
  PROVE  /\ After(c) \in Cells
         /\ After(c).at > 1 => After(c).msg = c.msg /\ After(c).at = c.at + 1 /\ c.at < Length(c.msg)
         /\ After(c).at = 1 => After(c).msg = c.msg + 1 /\ c.at = Length(c.msg)
<1>1. CASE c.at < Length(c.msg)
  <2>1. After(c) = [msg |-> c.msg, at |-> c.at + 1]
    BY <1>1 DEF After, Cells
  <2> QED BY <1>1, <2>1, Lengths DEF Cells
<1>2. CASE ~(c.at < Length(c.msg))
  <2>1. After(c) = [msg |-> c.msg + 1, at |-> 1]
    BY <1>2 DEF After
  <2> QED BY <1>2, <2>1, Lengths DEF Cells
<1> QED BY <1>1, <1>2

LEMMA ReadsEffect ==
  ASSUME TypeOK, NEW count \in Nat, Reads(count)
  PROVE  /\ wire # <<>> /\ UNCHANGED <<pc, mine, full, known, errno>>
         /\ \E k \in 1 .. Len(wire) :
              /\ k <= count
              /\ buf' \in Seq(Cells) /\ Len(buf') = Len(buf) + k /\ DOMAIN buf' = 1 .. Len(buf) + k
              /\ wire' \in Seq(Cells) /\ Len(wire') = Len(wire) - k /\ DOMAIN wire' = 1 .. Len(wire) - k
              /\ \A i \in 1 .. Len(buf) : buf'[i] = buf[i]
              /\ \A i \in 1 .. k : buf'[Len(buf) + i] = wire[i]
              /\ \A i \in 1 .. Len(wire) - k : wire'[i] = wire[k + i]
<1>1. buf \in Seq(Cells) /\ wire \in Seq(Cells)
  BY DEF TypeOK
<1>2. PICK k \in 1 .. Len(wire) : /\ k <= count
                                 /\ buf' = buf \o SubSeq(wire, 1, k)
                                 /\ wire' = SubSeq(wire, k + 1, Len(wire))
  BY DEF Reads
<1>3. wire # <<>> /\ UNCHANGED <<pc, mine, full, known, errno>>
  BY <1>1, <1>2 DEF Reads
<1>4. /\ buf' \in Seq(Cells) /\ Len(buf') = Len(buf) + k /\ DOMAIN buf' = 1 .. Len(buf) + k
      /\ wire' \in Seq(Cells) /\ Len(wire') = Len(wire) - k /\ DOMAIN wire' = 1 .. Len(wire) - k
      /\ \A i \in 1 .. Len(buf) : buf'[i] = buf[i]
      /\ \A i \in 1 .. k : buf'[Len(buf) + i] = wire[i]
      /\ \A i \in 1 .. Len(wire) - k : wire'[i] = wire[k + i]
  <2> DEFINE h == SubSeq(wire, 1, k)
             m == k + 1
             n == Len(wire)
  <2>1. Len(wire) \in Nat /\ Len(buf) \in Nat /\ k \in 1 .. Len(wire) /\ \A i \in 1 .. Len(wire) : wire[i] \in Cells
    BY <1>1, <1>2
  <2>2. h \in Seq(Cells) /\ Len(h) = k /\ \A i \in 1 .. k : h[i] = wire[i]
    BY <2>1, SubSeqProperties
  <2>3. m \in Int /\ n \in Int /\ \A i \in m .. n : wire[i] \in Cells
    BY <2>1
  <2>4. n - m + 1 = Len(wire) - k /\ \A i \in 1 .. Len(wire) - k : m + i - 1 = k + i
    BY <2>1
  <2>5. buf' = buf \o h /\ wire' = SubSeq(wire, m, n)
    BY <1>2
  <2> HIDE DEF h
  <2>6. /\ buf' \in Seq(Cells) /\ Len(buf') = Len(buf) + k
        /\ \A i \in 1 .. Len(buf) + k : buf'[i] = IF i <= Len(buf) THEN buf[i] ELSE h[i - Len(buf)]
    BY <1>1, <2>1, <2>2, <2>5, ConcatProperties
  <2>7. /\ wire' \in Seq(Cells) /\ Len(wire') = Len(wire) - k
        /\ \A i \in 1 .. Len(wire) - k : wire'[i] = wire[k + i]
    <3> HIDE DEF m, n
    <3>1. /\ SubSeq(wire, m, n) \in Seq(Cells)
          /\ Len(SubSeq(wire, m, n)) = IF m <= n THEN n - m + 1 ELSE 0
          /\ \A i \in 1 .. n - m + 1 : SubSeq(wire, m, n)[i] = wire[m + i - 1]
      BY <2>3, SubSeqProperties
    <3>2. Len(wire') = Len(wire) - k
      BY <2>1, <2>5, <3>1 DEF m, n
    <3> QED BY <2>4, <2>5, <3>1, <3>2
  <2>8. \A i \in 1 .. Len(buf) : buf'[i] = buf[i]
    BY <2>1, <2>6
  <2>9. \A i \in 1 .. k : buf'[Len(buf) + i] = wire[i]
    <3> TAKE i \in 1 .. k
    <3> DEFINE j == Len(buf) + i
    <3>1. j \in 1 .. Len(buf) + k /\ ~(j <= Len(buf)) /\ j - Len(buf) = i
      BY <2>1
    <3> HIDE DEF j
    <3>2. buf'[j] = h[i]
      BY <2>6, <3>1
    <3> QED BY <2>2, <3>2 DEF j
  <2>10. DOMAIN buf' = 1 .. Len(buf) + k /\ DOMAIN wire' = 1 .. Len(wire) - k
    BY <2>6, <2>7
  <2> HIDE DEF m, n
  <2> QED BY <2>6, <2>7, <2>8, <2>9, <2>10
<1> QED BY <1>2, <1>3, <1>4

-----------------------------------------------------------------------------
(* Types.  The bytes on the way stand in packets of the server.            *)

BytesInv ==
  /\ \A k \in DOMAIN wire : wire[k].msg \in Numbers /\ wire[k].at <= Length(wire[k].msg)
  /\ coming.at > 1 => coming.msg \in Numbers /\ coming.at <= Length(coming.msg)

TypeInv == TypeOK /\ BytesInv

LEMMA AnewCell == TypeInv => Anew \in Cells /\ Anew.at = 1 /\ coming.msg <= Anew.msg
<1> SUFFICES ASSUME TypeInv PROVE Anew \in Cells /\ Anew.at = 1 /\ coming.msg <= Anew.msg
  OBVIOUS
<1>1. CASE coming.at = 1
  BY <1>1 DEF Anew, TypeInv, TypeOK, Cells
<1>2. CASE coming.at # 1
  <2>1. coming.at > 1 /\ coming.msg \in Numbers
    BY <1>2 DEF TypeInv, TypeOK, BytesInv, Cells
  <2>2. Anew = [msg |-> coming.msg + 1, at |-> 1]
    BY <1>2 DEF Anew
  <2> QED BY <2>1, <2>2, Lengths DEF Cells
<1> QED BY <1>1, <1>2

\* The connection is closed or opened.
Replaced ==
  /\ wire' = <<>> /\ coming' = Anew
  /\ link' \in {"up", "closed"} /\ queueOpen' \in BOOLEAN

LEMMA ReplacedBytes == TypeInv /\ Replaced => wire' \in Seq(Cells) /\ coming' \in Cells /\ BytesInv'
<1> SUFFICES ASSUME TypeInv, Replaced PROVE wire' \in Seq(Cells) /\ coming' \in Cells /\ BytesInv'
  OBVIOUS
<1>1. wire' = <<>> /\ coming' = Anew /\ Anew \in Cells /\ Anew.at = 1
  BY AnewCell DEF Replaced
<1> QED BY <1>1 DEF BytesInv

LEMMA CloseReplaces == Close \/ (TypeOK /\ Open) => Replaced
BY DEF Close, Open, Replaced, TypeOK

LEMMA TypeReads ==
  ASSUME TypeInv, NEW count \in Nat, Reads(count), UNCHANGED <<coming, link, breaks>>
  PROVE  /\ BytesInv' /\ wire' \in Seq(Cells) /\ buf' \in Seq(Cells)
         /\ Len(buf') <= Len(buf) + count
<1>1. TypeOK /\ BytesInv /\ wire \in Seq(Cells) /\ buf \in Seq(Cells)
  BY DEF TypeInv, TypeOK
<1>2. PICK k \in 1 .. Len(wire) :
        /\ k <= count
        /\ buf' \in Seq(Cells) /\ Len(buf') = Len(buf) + k
        /\ wire' \in Seq(Cells) /\ DOMAIN wire' = 1 .. Len(wire) - k
        /\ \A i \in 1 .. Len(wire) - k : wire'[i] = wire[k + i]
  BY <1>1, ReadsEffect
<1>3. \A i \in 1 .. Len(wire) - k : k + i \in DOMAIN wire
  BY <1>1
<1>4. BytesInv'
  BY <1>1, <1>2, <1>3 DEF BytesInv
<1>5. Len(buf') <= Len(buf) + count
  BY <1>1, <1>2
<1> QED BY <1>2, <1>4, <1>5

LEMMA LeaveTypes == \A l : Leave(l) => buf' = <<>> /\ buf' \in Seq(Cells) /\ Len(buf') = 0
BY DEF Leave

LEMMA ClaimSizes == \A c \in Claims : c.size \in 1 .. MaxPack + 1 /\ c.known \in BOOLEAN
<1> TAKE c \in Claims
<1> DEFINE whole == {n \in Numbers : buf = SubSeq(Bytes(n), 1, Header)}
<1>1. CASE whole = {}
  BY <1>1 DEF Claims
<1>2. CASE whole # {}
  <2>1. PICK n \in whole : c = [size |-> Length(n), known |-> TRUE]
    BY <1>2 DEF Claims
  <2> QED BY <2>1, Lengths
<1> QED BY <1>1, <1>2

LEMMA TypeStep == TypeInv /\ [Next]_vars => TypeInv'
<1> SUFFICES ASSUME TypeInv, [Next]_vars PROVE TypeInv'
  OBVIOUS
<1> USE DEF TypeInv
<1>0. /\ TypeOK /\ BytesInv /\ wire \in Seq(Cells) /\ coming \in Cells /\ buf \in Seq(Cells)
      /\ Len(buf) \in Nat /\ full \in Nat
  BY DEF TypeOK
<1>1. CASE Arrive
  <2>1. coming.at <= Length(coming.msg) /\ coming.msg \in Numbers
    BY <1>0, <1>1, Lengths DEF Arrive, BytesInv, Cells
  <2>2. After(coming) \in Cells /\ (After(coming).at > 1 => After(coming).msg \in Numbers
                                      /\ After(coming).at <= Length(After(coming).msg))
    <3>1. /\ After(coming) \in Cells
          /\ After(coming).at > 1 => After(coming).msg = coming.msg /\ After(coming).at = coming.at + 1
                                       /\ coming.at < Length(coming.msg)
      BY <1>0, <2>1, AfterCell
    <3> QED BY <1>0, <2>1, <3>1, Lengths DEF Cells
  <2>3. wire' \in Seq(Cells) /\ \A k \in DOMAIN wire' : wire'[k] = coming \/ (k \in DOMAIN wire /\ wire'[k] = wire[k])
    <3>1. wire' = Append(wire, coming)
      BY <1>1 DEF Arrive
    <3>2. /\ Append(wire, coming) \in Seq(Cells) /\ Len(Append(wire, coming)) = Len(wire) + 1
          /\ \A i \in 1 .. Len(wire) : Append(wire, coming)[i] = wire[i]
          /\ Append(wire, coming)[Len(wire) + 1] = coming
      BY <1>0, AppendProperties
    <3> QED BY <1>0, <3>1, <3>2
  <2>4. BytesInv'
    BY <1>0, <1>1, <2>1, <2>2, <2>3 DEF Arrive, BytesInv
  <2> QED BY <1>1, <2>2, <2>3, <2>4 DEF Arrive, TypeOK, recvVars
<1>2. CASE Break
  BY <1>2 DEF Break, TypeOK, BytesInv, recvVars
<1>3. CASE CloseElsewhere
  <2>1. wire' \in Seq(Cells) /\ coming' \in Cells /\ BytesInv' /\ link' \in {"up", "closed"} /\ queueOpen' \in BOOLEAN
    BY <1>3, CloseReplaces, ReplacedBytes DEF CloseElsewhere, Replaced
  <2> QED BY <1>3, <2>1 DEF CloseElsewhere, TypeOK, recvVars
<1>4. CASE OpenElsewhere
  <2>1. wire' \in Seq(Cells) /\ coming' \in Cells /\ BytesInv' /\ link' \in {"up", "closed"} /\ queueOpen' \in BOOLEAN
    BY <1>4, CloseReplaces, ReplacedBytes DEF OpenElsewhere, Replaced
  <2>2. mine' \in {"current", "gone"}
    BY <1>4 DEF OpenElsewhere, TypeOK
  <2> QED BY <1>4, <2>1, <2>2 DEF OpenElsewhere, TypeOK
<1>5. CASE Take
  <2>1. inbox' \in Seq(Seq(Cells)) /\ Len(inbox') <= QueueSize
    BY <1>5, HeadTailProperties DEF Take, TypeOK
  <2> QED BY <1>5, <2>1 DEF Take, TypeOK, BytesInv, netVars, recvVars
<1>6. CASE Poll
  <2>1. buf = <<>>
    BY <1>6 DEF Poll, TypeOK
  <2> QED BY <1>6, <2>1 DEF Poll, TypeOK, BytesInv, netVars
<1>7. CASE ReadHeader
  <2>1. CASE Reads(Header - Len(buf))
    <3>1. Header - Len(buf) \in Nat
      BY <1>0, <1>7 DEF ReadHeader
    <3>2. BytesInv' /\ wire' \in Seq(Cells) /\ buf' \in Seq(Cells) /\ Len(buf') <= Header
      BY <1>0, <1>7, <2>1, <3>1, TypeReads DEF ReadHeader
    <3> QED BY <1>7, <2>1, <3>2 DEF ReadHeader, Reads, TypeOK
  <2>2. ASSUME NEW e \in {"again", "other"}, errno' = e, UNCHANGED wire,
               Leave(IF e = "again" THEN "poll" ELSE "retry")
        PROVE  TypeInv'
    <3>1. BytesInv'
      BY <1>7, <2>2 DEF ReadHeader, BytesInv
    <3> QED BY <1>7, <2>2, <3>1 DEF ReadHeader, TypeOK, Leave
  <2> QED BY <1>7, <2>1, <2>2 DEF ReadHeader
<1>8. CASE HeaderRead
  <2>1. PICK c \in Claims :
          \/ Leave("poll")
          \/ c.size <= MaxPack /\ pc' = "body" /\ full' = c.size /\ known' = c.known /\ UNCHANGED <<mine, buf>>
    BY <1>8 DEF HeaderRead
  <2>2. BytesInv'
    BY <1>8 DEF HeaderRead, BytesInv, netVars
  <2>3. c.size \in 1 .. MaxPack + 1 /\ c.known \in BOOLEAN
    BY ClaimSizes
  <2>4. CASE Leave("poll")
    BY <1>8, <2>2, <2>4 DEF HeaderRead, TypeOK, Leave, netVars
  <2>5. CASE ~Leave("poll")
    BY <1>8, <2>1, <2>2, <2>3, <2>5 DEF HeaderRead, TypeOK, netVars
  <2> QED BY <2>4, <2>5
<1>9. CASE ReadBody
  <2>1. CASE Reads(full - Len(buf))
    <3>1. full - Len(buf) \in Nat
      BY <1>0, <1>9 DEF ReadBody
    <3>2. BytesInv' /\ wire' \in Seq(Cells) /\ buf' \in Seq(Cells) /\ Len(buf') <= full
      BY <1>0, <1>9, <2>1, <3>1, TypeReads DEF ReadBody
    <3>3. full \in 0 .. MaxPack /\ MaxPack \in Nat /\ Len(buf') \in Nat
      BY <1>0, <3>2, SizesAssumption DEF TypeOK
    <3>4. Len(buf') <= MaxPack
      BY <3>2, <3>3
    <3> QED BY <1>9, <2>1, <3>2, <3>4 DEF ReadBody, Reads, TypeOK
  <2>2. ASSUME NEW e \in {"again", "other"}, errno' = e, UNCHANGED wire, Leave("retry")
        PROVE  TypeInv'
    <3>1. BytesInv'
      BY <1>9, <2>2 DEF ReadBody, BytesInv
    <3> QED BY <1>9, <2>2, <3>1 DEF ReadBody, TypeOK, Leave
  <2> QED BY <1>9, <2>1, <2>2 DEF ReadBody
<1>10. CASE Deliver
  <2>1. BytesInv'
    BY <1>10 DEF Deliver, BytesInv, netVars
  <2>2. inbox' \in Seq(Seq(Cells)) /\ Len(inbox') <= QueueSize
    BY <1>0, <1>10, AppendProperties DEF Deliver, Admits, TypeOK
  <2> QED BY <1>10, <2>1, <2>2 DEF Deliver, TypeOK, Leave, netVars
<1>11. CASE Retry
  <2>1. wire' \in Seq(Cells) /\ coming' \in Cells /\ BytesInv' /\ link' \in {"up", "closed"} /\ queueOpen' \in BOOLEAN
    BY <1>11, CloseReplaces, ReplacedBytes DEF Retry, Replaced
  <2> QED BY <1>11, <2>1 DEF Retry, TypeOK
<1>12. CASE Reopen
  <2>1. wire' \in Seq(Cells) /\ coming' \in Cells /\ BytesInv' /\ link' \in {"up", "closed"} /\ queueOpen' \in BOOLEAN
    BY <1>12, CloseReplaces, ReplacedBytes DEF Reopen, Replaced
  <2> QED BY <1>12, <2>1 DEF Reopen, TypeOK
<1>13. CASE UNCHANGED vars
  BY <1>13 DEF vars, netVars, recvVars, TypeOK, BytesInv
<1> QED
  BY <1>1, <1>2, <1>3, <1>4, <1>5, <1>6, <1>7, <1>8, <1>9, <1>10, <1>11, <1>12, <1>13 DEF Next, RecvThread

LEMMA InitTypes == Init => TypeInv
<1> SUFFICES ASSUME Init PROVE TypeInv
  OBVIOUS
<1>1. coming \in Cells
  BY Lengths DEF Init, Cells
<1>2. inbox \in Seq(Seq(Cells)) /\ Len(inbox) = 0 /\ wire \in Seq(Cells) /\ buf \in Seq(Cells) /\ Len(buf) = 0
  BY DEF Init
<1>3. BytesInv
  BY DEF Init, BytesInv
<1>4. build \in Builds
  BY DEF Init
<1>5. /\ link \in {"up", "ended", "broken", "closed"} /\ pc \in {"poll", "header", "body", "retry", "reopen"}
      /\ mine \in {"current", "gone"} /\ errno \in {"again", "other"}
      /\ other \in BOOLEAN /\ known \in BOOLEAN /\ queueOpen \in BOOLEAN
  BY DEF Init
<1>6. full \in 0 .. MaxPack /\ breaks \in 0 .. MaxBreaks /\ pc = "poll"
  BY DEF Init
<1> QED BY <1>1, <1>2, <1>3, <1>4, <1>5, <1>6 DEF TypeInv, TypeOK

\* However the stream is cut and whatever a header says, no more than MaxPack
\* bytes are read for a packet and the queue keeps within its room, for any
\* sizes.  (The buffer's own size is CopiesFit's.)
THEOREM TypeCorrect == Spec => []TypeOK
<1>1. TypeInv => TypeOK
  BY DEF TypeInv
<1> QED
  BY <1>1, InitTypes, TypeStep, PTL DEF Spec

-----------------------------------------------------------------------------
(* Bytes stand in the order of their packets, and in the body the size is   *)
(* that of the packet whose header was read, if it was one.                 *)

Before(c, d) == c.msg < d.msg \/ (c.msg = d.msg /\ d.at > 1)

OrderInv ==
  /\ \A i, j \in DOMAIN wire : i < j => Before(wire[i], wire[j])
  /\ \A i \in DOMAIN wire : Before(wire[i], coming)
  /\ \A i \in DOMAIN buf, j \in DOMAIN wire : Before(buf[i], wire[j])
  /\ \A i \in DOMAIN buf : Before(buf[i], coming)

HeaderInv ==
  pc = "body" =>
    /\ Len(buf) >= Header
    /\ Len(buf) > Header => Len(buf) <= full
    /\ \A n \in Numbers : (\A k \in 1 .. Header : buf[k] = [msg |-> n, at |-> k]) => full = Length(n)

LEMMA ReadsOrder ==
  ASSUME TypeInv, OrderInv, NEW count \in Nat, Reads(count), UNCHANGED coming
  PROVE  OrderInv'
<1>1. buf \in Seq(Cells) /\ wire \in Seq(Cells) /\ Len(buf) \in Nat /\ Len(wire) \in Nat
      /\ DOMAIN buf = 1 .. Len(buf) /\ DOMAIN wire = 1 .. Len(wire)
  BY DEF TypeInv, TypeOK
<1>2. PICK k \in 1 .. Len(wire) :
        /\ DOMAIN buf' = 1 .. Len(buf) + k /\ DOMAIN wire' = 1 .. Len(wire) - k
        /\ \A i \in 1 .. Len(buf) : buf'[i] = buf[i]
        /\ \A i \in 1 .. k : buf'[Len(buf) + i] = wire[i]
        /\ \A i \in 1 .. Len(wire) - k : wire'[i] = wire[k + i]
  BY ReadsEffect DEF TypeInv
<1>3. \A j \in DOMAIN wire' : k + j \in DOMAIN wire /\ wire'[j] = wire[k + j] /\ k + j > k
  BY <1>1, <1>2
<1>4. ASSUME NEW i \in DOMAIN buf', ~(i <= Len(buf))
      PROVE  \E h \in 1 .. k : buf'[i] = wire[h] /\ h \in DOMAIN wire
  <2> DEFINE h == i - Len(buf)
  <2>1. h \in 1 .. k /\ Len(buf) + h = i /\ h \in DOMAIN wire
    BY <1>1, <1>2, <1>4
  <2> QED BY <1>2, <2>1
<1>5. \A i \in DOMAIN buf' : i <= Len(buf) => i \in DOMAIN buf /\ buf'[i] = buf[i]
  BY <1>1, <1>2
<1>6. \A i, j \in DOMAIN wire' : i < j => Before(wire'[i], wire'[j])
  <2> TAKE i, j \in DOMAIN wire'
  <2> HAVE i < j
  <2>1. k + i < k + j
    BY <1>1, <1>2
  <2> QED BY <1>3, <2>1 DEF OrderInv
<1>7. \A i \in DOMAIN wire' : Before(wire'[i], coming')
  BY <1>3 DEF OrderInv
<1>8. ASSUME NEW i \in DOMAIN buf'
      PROVE  /\ \A j \in DOMAIN wire' : Before(buf'[i], wire'[j])
             /\ Before(buf'[i], coming')
  <2>1. CASE i <= Len(buf)
    BY <1>3, <1>5, <2>1 DEF OrderInv
  <2>2. CASE ~(i <= Len(buf))
    <3>1. PICK h \in 1 .. k : buf'[i] = wire[h] /\ h \in DOMAIN wire
      BY <1>4, <2>2
    <3>2. \A j \in DOMAIN wire' : h < k + j
      BY <1>1, <1>2
    <3> QED BY <1>3, <3>1, <3>2 DEF OrderInv
  <2> QED BY <2>1, <2>2
<1> QED BY <1>6, <1>7, <1>8 DEF OrderInv

LEMMA ReplacedOrder ==
  TypeInv /\ OrderInv /\ Replaced /\ (UNCHANGED buf \/ buf' = <<>>) => OrderInv'
<1> SUFFICES ASSUME TypeInv, OrderInv, Replaced, UNCHANGED buf \/ buf' = <<>> PROVE OrderInv'
  OBVIOUS
<1>1. wire' = <<>> /\ coming' = Anew /\ buf \in Seq(Cells) /\ coming \in Cells
  BY DEF Replaced, TypeInv, TypeOK
<1>2. ASSUME NEW i \in DOMAIN buf PROVE Before(buf[i], Anew)
  <2>1. buf[i] \in Cells /\ Before(buf[i], coming)
    BY <1>1, <1>2 DEF OrderInv
  <2>2. CASE coming.at = 1
    BY <2>1, <2>2 DEF Anew
  <2>3. CASE coming.at # 1
    <3>1. Anew = [msg |-> coming.msg + 1, at |-> 1]
      BY <2>3 DEF Anew
    <3> QED BY <1>1, <2>1, <3>1 DEF Before, Cells
  <2> QED BY <2>2, <2>3
<1>3. DOMAIN wire' = {}
  BY <1>1
<1>4. \A i \in DOMAIN buf' : Before(buf'[i], coming')
  BY <1>1, <1>2
<1> QED BY <1>3, <1>4 DEF OrderInv

LEMMA LeaveOrder == ASSUME OrderInv, NEW l, Leave(l), UNCHANGED <<wire, coming>> PROVE OrderInv'
BY DEF Leave, OrderInv

LEMMA ArriveOrder == TypeInv /\ OrderInv /\ Arrive => OrderInv'
<1> SUFFICES ASSUME TypeInv, OrderInv, Arrive PROVE OrderInv'
  OBVIOUS
<1>1. buf \in Seq(Cells) /\ wire \in Seq(Cells) /\ coming \in Cells /\ Len(wire) \in Nat
      /\ DOMAIN wire = 1 .. Len(wire)
  BY DEF TypeInv, TypeOK
<1>2. coming.msg \in Numbers /\ coming.at <= Length(coming.msg)
  BY <1>1, Lengths DEF Arrive, TypeInv, BytesInv, Cells
<1>3. /\ After(coming) \in Cells
      /\ After(coming).at > 1 => After(coming).msg = coming.msg
      /\ After(coming).at = 1 => After(coming).msg = coming.msg + 1
  BY <1>1, <1>2, AfterCell
<1>4. Before(coming, After(coming)) /\ \A c \in Cells : Before(c, coming) => Before(c, After(coming))
  BY <1>1, <1>3 DEF Before, Cells
<1>5. /\ DOMAIN wire' = 1 .. Len(wire) + 1
      /\ \A i \in DOMAIN wire : wire'[i] = wire[i]
      /\ wire'[Len(wire) + 1] = coming
  <2>1. /\ Append(wire, coming) \in Seq(Cells) /\ Len(Append(wire, coming)) = Len(wire) + 1
        /\ \A i \in 1 .. Len(wire) : Append(wire, coming)[i] = wire[i]
        /\ Append(wire, coming)[Len(wire) + 1] = coming
    BY <1>1, AppendProperties
  <2> QED BY <1>1, <2>1 DEF Arrive
<1>6. UNCHANGED buf /\ coming' = After(coming)
  BY DEF Arrive, recvVars
<1>7. \A j \in DOMAIN wire' : j \in DOMAIN wire \/ j = Len(wire) + 1
  <2>1. \A l \in Nat : \A j \in 1 .. l + 1 : j \in 1 .. l \/ j = l + 1
    OBVIOUS
  <2> QED BY <1>1, <1>5, <2>1
<1>8. \A i, j \in DOMAIN wire' : i < j => Before(wire'[i], wire'[j])
  <2> TAKE i, j \in DOMAIN wire'
  <2> HAVE i < j
  <2>1. i \in 1 .. Len(wire) + 1 /\ j \in 1 .. Len(wire) + 1
    BY <1>5
  <2>2. i \in DOMAIN wire
    BY <1>1, <2>1
  <2>3. CASE j \in DOMAIN wire
    BY <1>5, <2>2, <2>3 DEF OrderInv
  <2>4. CASE j = Len(wire) + 1
    BY <1>5, <2>2, <2>4 DEF OrderInv
  <2> QED BY <1>7, <2>3, <2>4
<1>9. \A i \in DOMAIN wire' : Before(wire'[i], coming')
  <2> TAKE i \in DOMAIN wire'
  <2>1. CASE i \in DOMAIN wire
    BY <1>1, <1>4, <1>5, <1>6, <2>1 DEF OrderInv
  <2>2. CASE i = Len(wire) + 1
    BY <1>4, <1>5, <1>6, <2>2
  <2> QED BY <1>7, <2>1, <2>2
<1>10. \A i \in DOMAIN buf', j \in DOMAIN wire' : Before(buf'[i], wire'[j])
  BY <1>5, <1>6, <1>7 DEF OrderInv
<1>11. \A i \in DOMAIN buf' : Before(buf'[i], coming')
  BY <1>1, <1>4, <1>6 DEF OrderInv
<1> QED BY <1>8, <1>9, <1>10, <1>11 DEF OrderInv

\* Steps that leave the buffer, or empty it, and replace the connection or
\* leave it, and those that read.
LEMMA OrderStep == TypeInv /\ OrderInv /\ [Next]_vars => OrderInv'
<1> SUFFICES ASSUME TypeInv, OrderInv, [Next]_vars PROVE OrderInv'
  OBVIOUS
<1>0. TypeOK /\ Len(buf) \in Nat /\ full \in Nat
  BY DEF TypeInv, TypeOK
<1>1. CASE Arrive
  BY <1>1, ArriveOrder
<1>2. CASE UNCHANGED <<wire, coming, buf>>
  BY <1>2 DEF OrderInv
<1>3. CASE CloseElsewhere \/ OpenElsewhere \/ Retry \/ Reopen
  <2>1. Replaced /\ UNCHANGED buf
    BY <1>0, <1>3, CloseReplaces DEF CloseElsewhere, OpenElsewhere, Retry, Reopen, recvVars
  <2> QED BY <2>1, ReplacedOrder
<1>4. CASE ReadHeader
  <2>1. Header - Len(buf) \in Nat /\ UNCHANGED coming
    BY <1>0, <1>4 DEF ReadHeader
  <2>2. Reads(Header - Len(buf)) => OrderInv'
    BY <2>1, ReadsOrder
  <2> QED BY <1>4, <2>1, <2>2, LeaveOrder DEF ReadHeader
<1>5. CASE ReadBody
  <2>1. full - Len(buf) \in Nat /\ UNCHANGED coming
    BY <1>0, <1>5 DEF ReadBody
  <2>2. Reads(full - Len(buf)) => OrderInv'
    BY <2>1, ReadsOrder
  <2> QED BY <1>5, <2>1, <2>2, LeaveOrder DEF ReadBody
<1>6. CASE HeaderRead
  <2>1. UNCHANGED <<wire, coming>> /\ (UNCHANGED buf \/ Leave("poll"))
    BY <1>6 DEF HeaderRead, netVars
  <2> QED BY <1>2, <2>1, LeaveOrder
<1>7. CASE Deliver
  <2>1. UNCHANGED <<wire, coming>> /\ Leave("poll")
    BY <1>7 DEF Deliver, netVars
  <2> QED BY <2>1, LeaveOrder
<1>8. Break \/ Take \/ Poll \/ UNCHANGED vars => UNCHANGED <<wire, coming, buf>>
  BY DEF Break, Take, Poll, vars, netVars, recvVars
<1> QED
  BY <1>1, <1>2, <1>3, <1>4, <1>5, <1>6, <1>7, <1>8 DEF Next, RecvThread

LEMMA BytesSeq ==
  ASSUME NEW n \in Numbers
  PROVE  /\ Bytes(n) \in Seq(Cells) /\ Len(Bytes(n)) = Length(n)
         /\ \A k \in 1 .. Length(n) : Bytes(n)[k] = [msg |-> n, at |-> k]
<1>1. Length(n) \in Header .. MaxPack /\ Length(n) \in Nat /\ n \in 1 .. Len(Bodies) + 1
  BY Lengths
<1>2. \A k \in 1 .. Length(n) : [msg |-> n, at |-> k] \in Cells
  BY <1>1 DEF Cells
<1>3. Bytes(n) = [k \in 1 .. Length(n) |-> [msg |-> n, at |-> k]]
  BY DEF Bytes
<1> QED BY <1>1, <1>2, <1>3

LEMMA HeaderBytes ==
  ASSUME NEW n \in Numbers
  PROVE  /\ SubSeq(Bytes(n), 1, Header) \in Seq(Cells) /\ Len(SubSeq(Bytes(n), 1, Header)) = Header
         /\ \A k \in 1 .. Header : SubSeq(Bytes(n), 1, Header)[k] = [msg |-> n, at |-> k]
<1> DEFINE b == Bytes(n)
<1>1. b \in Seq(Cells) /\ Len(b) = Length(n) /\ Length(n) \in Nat /\ Header <= Length(n)
      /\ \A k \in 1 .. Length(n) : b[k] = [msg |-> n, at |-> k]
  BY BytesSeq, Lengths
<1> HIDE DEF b
<1>2. /\ SubSeq(b, 1, Header) \in Seq(Cells) /\ Len(SubSeq(b, 1, Header)) = Header
      /\ \A k \in 1 .. Header : SubSeq(b, 1, Header)[k] = b[k]
  <2>1. \A k \in 1 .. Header : b[k] \in Cells
    BY <1>1
  <2> QED BY <2>1, SubSeqProperties
<1> QED BY <1>1, <1>2 DEF b

\* A whole header of a packet says its size.
LEMMA WholeHeader ==
  ASSUME TypeInv, Len(buf) = Header, NEW n \in Numbers,
         \A k \in 1 .. Header : buf[k] = [msg |-> n, at |-> k]
  PROVE  \A c \in Claims : c.size = Length(n)
<1> DEFINE whole == {m \in Numbers : buf = SubSeq(Bytes(m), 1, Header)}
<1>1. n \in whole
  <2>1. buf \in Seq(Cells)
    BY DEF TypeInv, TypeOK
  <2>2. \A s, t \in Seq(Cells) : Len(s) = Len(t) /\ (\A i \in 1 .. Len(s) : s[i] = t[i]) => s = t
    BY SeqEqual
  <2> DEFINE h == SubSeq(Bytes(n), 1, Header)
  <2>3. h \in Seq(Cells) /\ Len(h) = Header /\ \A k \in 1 .. Header : h[k] = [msg |-> n, at |-> k]
    BY HeaderBytes
  <2> HIDE DEF h
  <2>4. buf = h
    BY <2>1, <2>2, <2>3
  <2> QED BY <2>4 DEF h
<1>2. \A m \in whole : m = n
  <2> TAKE m \in whole
  <2>1. SubSeq(Bytes(m), 1, Header)[1] = [msg |-> m, at |-> 1]
    BY HeaderBytes
  <2>2. 1 \in 1 .. Header
    OBVIOUS
  <2>3. buf[1] = [msg |-> n, at |-> 1]
    BY <2>2
  <2>4. buf = SubSeq(Bytes(m), 1, Header)
    BY Zenon
  <2> QED BY <2>1, <2>3, <2>4
<1>3. Claims = {[size |-> Length(m), known |-> TRUE] : m \in whole}
  BY <1>1 DEF Claims
<1> HIDE DEF whole
<1> QED BY <1>2, <1>3

LEMMA HeaderStep == TypeInv /\ HeaderInv /\ [Next]_vars => HeaderInv'
<1> SUFFICES ASSUME TypeInv, HeaderInv, [Next]_vars, pc' = "body" PROVE HeaderInv'
  BY DEF HeaderInv
<1>0. TypeOK /\ buf \in Seq(Cells) /\ Len(buf) \in Nat /\ full \in Nat
  BY DEF TypeInv, TypeOK
<1>1. CASE UNCHANGED <<pc, buf, full>>
  BY <1>1 DEF HeaderInv
<1>2. CASE HeaderRead
  <2>1. PICK c \in Claims : full' = c.size /\ UNCHANGED buf
    BY <1>2 DEF HeaderRead, Leave
  <2>2. Len(buf) = Header
    BY <1>2 DEF HeaderRead
  <2>3. ASSUME NEW n \in Numbers, \A k \in 1 .. Header : buf[k] = [msg |-> n, at |-> k]
        PROVE  full' = Length(n)
    BY <2>1, <2>2, <2>3, WholeHeader
  <2> QED BY <2>1, <2>2, <2>3 DEF HeaderInv
<1>3. CASE ReadBody
  <2>1. Reads(full - Len(buf)) /\ pc = "body" /\ full - Len(buf) \in Nat
    BY <1>0, <1>3 DEF ReadBody, Leave
  <2>2. PICK k \in 1 .. Len(wire) :
          /\ k <= full - Len(buf)
          /\ Len(buf') = Len(buf) + k /\ (\A i \in 1 .. Len(buf) : buf'[i] = buf[i]) /\ full' = full
    BY <1>0, <2>1, ReadsEffect
  <2>3. Len(buf) >= Header
    BY <2>1 DEF HeaderInv
  <2>4. Len(buf') >= Header /\ \A i \in 1 .. Header : buf'[i] = buf[i]
    BY <1>0, <2>2, <2>3
  <2>5. Len(buf') <= full'
    BY <1>0, <2>2
  <2> QED BY <2>1, <2>2, <2>4, <2>5 DEF HeaderInv
<1>4. ReadHeader => UNCHANGED pc \/ pc' # "body"
  BY DEF ReadHeader, Reads, Leave
<1>5. ~ReadHeader /\ ~Deliver /\ ~Retry /\ ~Reopen /\ ~Poll
  <2>1. ~ReadHeader
    BY <1>4 DEF ReadHeader
  <2> QED BY <2>1 DEF Deliver, Leave, Retry, Reopen, Poll
<1>6. Arrive \/ Break \/ CloseElsewhere \/ OpenElsewhere \/ Take \/ UNCHANGED vars => UNCHANGED <<pc, buf, full>>
  BY DEF Arrive, Break, CloseElsewhere, OpenElsewhere, Take, vars, recvVars
<1> QED
  BY <1>1, <1>2, <1>3, <1>5, <1>6 DEF Next, RecvThread

\* What is copied into the buffer allocated for a packet fits it, for any sizes
\* and wherever the stream is cut, unless a header read out of step says less
\* than its own size.
THEOREM CopiesAlwaysFit == Spec => []CopiesFit
<1>1. TypeInv /\ HeaderInv => CopiesFit
  <2> SUFFICES ASSUME TypeInv, HeaderInv, pc = "body"
               PROVE  (full >= Header => Len(buf) <= full) /\ (InStep => full >= Header)
    BY DEF CopiesFit
  <2>1. buf \in Seq(Cells) /\ Len(buf) \in Nat /\ Len(buf) >= Header /\ DOMAIN buf = 1 .. Len(buf) /\ full \in Nat
    BY DEF TypeInv, TypeOK, HeaderInv
  <2>2. full >= Header => Len(buf) <= full
    <3>1. Len(buf) > Header => Len(buf) <= full
      BY DEF HeaderInv
    <3> QED BY <2>1, <3>1, SizesAssumption
  <2>3. ASSUME InStep PROVE full >= Header
    <3>1. buf # <<>>
      BY <2>1
    <3>2. PICK n \in Numbers : Begins(n)
      BY <2>3, <3>1 DEF InStep
    <3>3. \A k \in 1 .. Header : buf[k] = [msg |-> n, at |-> k]
      BY <2>1, <3>2 DEF Begins
    <3>4. full = Length(n)
      BY <3>3 DEF HeaderInv
    <3> QED BY <3>4, Lengths
  <2> QED BY <2>2, <2>3
<1>2. Init => HeaderInv
  BY DEF Init, HeaderInv
<1> QED
  BY <1>1, <1>2, InitTypes, TypeStep, HeaderStep, PTL DEF Spec

-----------------------------------------------------------------------------
(* The refinement.  First what is handed over, packet by packet.           *)

LEMMA ContentRange ==
  /\ \A b : Content(b) \in Numbers \cup {Garbage}
  /\ \A n \in Numbers : Content(Bytes(n)) = n
<1>1. \A n \in Numbers : Bytes(n)[1].msg = n
  <2> TAKE n \in Numbers
  <2>1. 1 \in 1 .. Length(n)
    BY Lengths
  <2>2. Bytes(n)[1] = [msg |-> n, at |-> 1]
    BY <2>1, BytesSeq
  <2> QED BY <2>2
<1> QED BY <1>1 DEF Content

Contents(s) == [k \in DOMAIN s |-> Content(s[k])]

LEMMA ContentsSeq ==
  ASSUME NEW s \in Seq(Seq(Cells))
  PROVE  /\ Contents(s) \in Seq(Numbers \cup {Garbage}) /\ Len(Contents(s)) = Len(s)
         /\ \A k \in 1 .. Len(s) : Contents(s)[k] = Content(s[k])
<1>1. Contents(s) = [k \in 1 .. Len(s) |-> Content(s[k])] /\ Len(s) \in Nat
  BY DEF Contents
<1>2. \A k \in 1 .. Len(s) : Content(s[k]) \in Numbers \cup {Garbage}
  BY ContentRange
<1> QED BY <1>1, <1>2

LEMMA SameSeq ==
  \A S : \A s, t \in Seq(S) : Len(s) = Len(t) /\ (\A i \in 1 .. Len(s) : s[i] = t[i]) => s = t
BY SeqEqual

LEMMA ContentsAppend ==
  ASSUME NEW s \in Seq(Seq(Cells)), NEW b \in Seq(Cells)
  PROVE  Contents(Append(s, b)) = Append(Contents(s), Content(b))
<1> DEFINE S == Numbers \cup {Garbage}
           t == Append(s, b)
           c == Contents(s)
           d == Append(c, Content(b))
<1>1. /\ t \in Seq(Seq(Cells)) /\ Len(t) = Len(s) + 1 /\ Len(s) \in Nat
      /\ \A i \in 1 .. Len(s) : t[i] = s[i]
      /\ t[Len(s) + 1] = b
  BY AppendProperties
<1>2. c \in Seq(S) /\ Len(c) = Len(s) /\ \A k \in 1 .. Len(s) : c[k] = Content(s[k])
  BY ContentsSeq
<1>3. Content(b) \in S
  BY ContentRange
<1> HIDE DEF S, t, c
<1>4. /\ Contents(t) \in Seq(S) /\ Len(Contents(t)) = Len(t)
      /\ \A k \in 1 .. Len(t) : Contents(t)[k] = Content(t[k])
  BY <1>1, ContentsSeq DEF S
<1>5. /\ d \in Seq(S) /\ Len(d) = Len(c) + 1
      /\ \A i \in 1 .. Len(c) : d[i] = c[i]
      /\ d[Len(c) + 1] = Content(b)
  BY <1>2, <1>3, AppendProperties
<1> HIDE DEF d
<1>6. \A k \in 1 .. Len(s) + 1 : Contents(t)[k] = d[k]
  <2> TAKE k \in 1 .. Len(s) + 1
  <2>1. CASE k \in 1 .. Len(s)
    BY <1>1, <1>2, <1>4, <1>5, <2>1
  <2>2. CASE k = Len(s) + 1
    BY <1>1, <1>2, <1>4, <1>5, <2>2
  <2> QED BY <1>1, <2>1, <2>2
<1>7. Contents(t) = d
  BY <1>1, <1>2, <1>4, <1>5, <1>6, SameSeq
<1> QED BY <1>7 DEF t, d, c

LEMMA ContentsTail ==
  ASSUME NEW s \in Seq(Seq(Cells)), s # <<>>
  PROVE  Contents(s) # <<>> /\ Contents(Tail(s)) = Tail(Contents(s))
<1> DEFINE S == Numbers \cup {Garbage}
           t == Tail(s)
           c == Contents(s)
           d == Tail(c)
<1>1. /\ t \in Seq(Seq(Cells)) /\ Len(t) = Len(s) - 1 /\ Len(s) \in Nat \ {0}
      /\ \A i \in 1 .. Len(t) : t[i] = s[i + 1]
  BY HeadTailProperties, EmptySeq
<1>2. c \in Seq(S) /\ Len(c) = Len(s) /\ \A k \in 1 .. Len(s) : c[k] = Content(s[k])
  BY ContentsSeq
<1>3. c # <<>>
  BY <1>1, <1>2
<1> HIDE DEF S, t, c
<1>4. /\ Contents(t) \in Seq(S) /\ Len(Contents(t)) = Len(t)
      /\ \A k \in 1 .. Len(t) : Contents(t)[k] = Content(t[k])
  BY <1>1, ContentsSeq DEF S
<1>5. d \in Seq(S) /\ Len(d) = Len(c) - 1 /\ \A i \in 1 .. Len(d) : d[i] = c[i + 1]
  BY <1>2, <1>3, HeadTailProperties
<1> HIDE DEF d
<1>6. \A k \in 1 .. Len(t) : Contents(t)[k] = d[k]
  <2> TAKE k \in 1 .. Len(t)
  <2>1. k + 1 \in 1 .. Len(s) /\ k \in 1 .. Len(d)
    BY <1>1, <1>2, <1>5
  <2>2. Contents(t)[k] = Content(t[k]) /\ t[k] = s[k + 1]
    BY <1>1, <1>4
  <2>3. d[k] = c[k + 1] /\ c[k + 1] = Content(s[k + 1])
    BY <1>2, <1>5, <2>1
  <2> QED BY <2>2, <2>3
<1>7. Contents(t) = d
  BY <1>1, <1>2, <1>4, <1>5, <1>6, SameSeq
<1> QED BY <1>3, <1>7 DEF t, d, c

LEMMA HandedOverIs == HandedOver = Contents(inbox) /\ HandedOver' = Contents(inbox')
BY DEF HandedOver, Contents

-----------------------------------------------------------------------------
(* What is on the way only grows when the server begins a packet.          *)

LEMMA Boolean == InStep \in BOOLEAN /\ InStep' \in BOOLEAN
BY DEF InStep

LEMMA Losing ==
  ASSUME UNCHANGED inbox, Said' = Said, Pending' \subseteq Pending
  PROVE  Stream!Lose
<1>1. HandedOver' = HandedOver
  BY DEF HandedOver
<1>2. (~InStep)' \in BOOLEAN
  BY Boolean
<1> QED BY <1>1, <1>2 DEF Stream!Lose

\* Every byte in the buffer or on the way was there before.
LEMMA FewerPending ==
  ASSUME \A k \in DOMAIN buf' : (\E i \in DOMAIN buf : buf'[k] = buf[i]) \/ (\E i \in DOMAIN wire : buf'[k] = wire[i]),
         \A k \in DOMAIN wire' : \E i \in DOMAIN wire : wire'[k] = wire[i]
  PROVE  Pending' \subseteq Pending
<1>1. On(buf)' \subseteq On(buf) \cup On(wire)
  BY DEF On
<1>2. On(wire)' \subseteq On(wire)
  BY DEF On
<1> QED BY <1>1, <1>2 DEF Pending

LEMMA SamePending ==
  ASSUME UNCHANGED wire, UNCHANGED buf \/ buf' = <<>>
  PROVE  Pending' \subseteq Pending
<1>1. \A k \in DOMAIN buf' : \E i \in DOMAIN buf : buf'[k] = buf[i]
  OBVIOUS
<1>2. \A k \in DOMAIN wire' : \E i \in DOMAIN wire : wire'[k] = wire[i]
  OBVIOUS
<1> QED BY <1>1, <1>2, FewerPending

LEMMA ReadsPending ==
  ASSUME TypeInv, NEW count \in Nat, Reads(count)
  PROVE  Pending' \subseteq Pending
<1>1. buf \in Seq(Cells) /\ wire \in Seq(Cells) /\ Len(buf) \in Nat /\ Len(wire) \in Nat
      /\ DOMAIN buf = 1 .. Len(buf) /\ DOMAIN wire = 1 .. Len(wire)
  BY DEF TypeInv, TypeOK
<1>2. PICK k \in 1 .. Len(wire) :
        /\ DOMAIN buf' = 1 .. Len(buf) + k /\ DOMAIN wire' = 1 .. Len(wire) - k
        /\ \A i \in 1 .. Len(buf) : buf'[i] = buf[i]
        /\ \A i \in 1 .. k : buf'[Len(buf) + i] = wire[i]
        /\ \A i \in 1 .. Len(wire) - k : wire'[i] = wire[k + i]
  BY ReadsEffect DEF TypeInv
<1>3. ASSUME NEW i \in DOMAIN buf'
      PROVE  (\E h \in DOMAIN buf : buf'[i] = buf[h]) \/ (\E h \in DOMAIN wire : buf'[i] = wire[h])
  <2>1. CASE i <= Len(buf)
    BY <1>1, <1>2, <1>3, <2>1
  <2>2. CASE ~(i <= Len(buf))
    <3> DEFINE h == i - Len(buf)
    <3>1. h \in 1 .. k /\ Len(buf) + h = i /\ h \in DOMAIN wire
      BY <1>1, <1>2, <1>3, <2>2
    <3> QED BY <1>2, <3>1
  <2> QED BY <2>1, <2>2
<1>4. ASSUME NEW i \in DOMAIN wire'
      PROVE  k + i \in DOMAIN wire /\ wire'[i] = wire[k + i]
  <2>1. k \in Nat /\ i \in 1 .. Len(wire) - k
    BY <1>2, <1>4
  <2>2. k + i \in 1 .. Len(wire)
    BY <1>1, <2>1
  <2> QED BY <1>1, <1>2, <2>1, <2>2
<1> QED BY <1>3, <1>4, FewerPending

LEMMA ReplacedLoses ==
  TypeInv /\ Replaced /\ UNCHANGED <<buf, inbox>> => Stream!Lose
<1> SUFFICES ASSUME TypeInv, Replaced, UNCHANGED <<buf, inbox>> PROVE Stream!Lose
  OBVIOUS
<1>1. wire' = <<>> /\ coming' = Anew /\ coming \in Cells
  BY DEF Replaced, TypeInv, TypeOK
<1>2. Pending' \subseteq Pending
  <2>1. \A k \in DOMAIN wire' : \E i \in DOMAIN wire : wire'[k] = wire[i]
    BY <1>1
  <2>2. \A k \in DOMAIN buf' : \E i \in DOMAIN buf : buf'[k] = buf[i]
    OBVIOUS
  <2> QED BY <2>1, <2>2, FewerPending
<1>3. Said' = Said
  <2>1. CASE coming.at = 1
    BY <1>1, <2>1 DEF Said, Anew
  <2>2. CASE coming.at # 1
    <3>1. coming' = [msg |-> coming.msg + 1, at |-> 1]
      BY <1>1, <2>2 DEF Anew
    <3>2. Said' = (coming.msg + 1) - 1 /\ Said = coming.msg /\ coming.msg \in Nat
      BY <1>1, <2>2, <3>1, Lengths DEF Said, Cells
    <3> QED BY <3>2
  <2> QED BY <2>1, <2>2
<1> QED BY <1>2, <1>3, Losing

LEMMA ArriveUpcoming == TypeInv /\ Arrive => Upcoming' = Upcoming /\ InStep' = InStep
<1> SUFFICES ASSUME TypeInv, Arrive PROVE Upcoming' = Upcoming /\ InStep' = InStep
  OBVIOUS
<1>1. /\ wire \in Seq(Cells) /\ coming \in Cells /\ Len(wire) \in Nat /\ DOMAIN wire = 1 .. Len(wire)
      /\ UNCHANGED <<pc, buf>>
  BY DEF TypeInv, TypeOK, Arrive, recvVars
<1>2. /\ DOMAIN wire' = 1 .. Len(wire) + 1
      /\ \A i \in 1 .. Len(wire) : wire'[i] = wire[i]
      /\ wire'[Len(wire) + 1] = coming
  <2>1. /\ Append(wire, coming) \in Seq(Cells) /\ Len(Append(wire, coming)) = Len(wire) + 1
        /\ \A i \in 1 .. Len(wire) : Append(wire, coming)[i] = wire[i]
        /\ Append(wire, coming)[Len(wire) + 1] = coming
    BY <1>1, AppendProperties
  <2> QED BY <2>1 DEF Arrive
<1>3. 1 \in DOMAIN wire' /\ wire' # <<>>
  BY <1>1, <1>2
<1>4. CASE wire = <<>>
  <2>1. Len(wire) = 0
    BY <1>4
  <2>2. wire'[1] = coming
    BY <1>2, <2>1
  <2> QED BY <1>1, <1>3, <1>4, <2>2 DEF Upcoming, InStep, Begins
<1>5. CASE wire # <<>>
  <2>1. 1 \in 1 .. Len(wire)
    BY <1>1, <1>5, EmptySeq
  <2>2. wire'[1] = wire[1]
    BY <1>2, <2>1
  <2>3. Upcoming' = Upcoming
    BY <1>3, <1>5, <2>2 DEF Upcoming
  <2> QED BY <1>1, <2>3 DEF InStep, Begins
<1> QED BY <1>4, <1>5

LEMMA ArriveAnnounces == TypeInv /\ Arrive => Stream!Announce \/ Stream!Lose
<1> SUFFICES ASSUME TypeInv, Arrive PROVE Stream!Announce \/ Stream!Lose
  OBVIOUS
<1>1. /\ wire \in Seq(Cells) /\ coming \in Cells /\ Len(wire) \in Nat /\ DOMAIN wire = 1 .. Len(wire)
      /\ UNCHANGED <<pc, buf, inbox>> /\ coming' = After(coming) /\ coming.msg \in Numbers
  BY DEF TypeInv, TypeOK, Arrive, recvVars
<1>2. coming.at <= Length(coming.msg) /\ coming.msg \in Nat
  BY <1>1, Lengths DEF TypeInv, BytesInv, Cells
<1>3. /\ After(coming) \in Cells
      /\ After(coming).at > 1 => After(coming).msg = coming.msg
      /\ After(coming).at = 1 => After(coming).msg = coming.msg + 1
  BY <1>1, <1>2, AfterCell
<1>4. Said' = coming.msg
  <2>1. After(coming).at \in Nat /\ After(coming).at >= 1
    BY <1>3 DEF Cells
  <2>2. CASE After(coming).at = 1
    <3>1. Said' = (coming.msg + 1) - 1
      BY <1>1, <1>3, <2>2 DEF Said
    <3> QED BY <1>2, <3>1
  <2>3. CASE After(coming).at # 1
    BY <1>1, <1>3, <2>1, <2>3 DEF Said
  <2> QED BY <2>2, <2>3
<1>5. /\ DOMAIN wire' = 1 .. Len(wire) + 1
      /\ \A i \in DOMAIN wire : wire'[i] = wire[i]
      /\ wire'[Len(wire) + 1] = coming
  <2>1. /\ Append(wire, coming) \in Seq(Cells) /\ Len(Append(wire, coming)) = Len(wire) + 1
        /\ \A i \in 1 .. Len(wire) : Append(wire, coming)[i] = wire[i]
        /\ Append(wire, coming)[Len(wire) + 1] = coming
    BY <1>1, AppendProperties
  <2> QED BY <1>1, <2>1 DEF Arrive
<1>6. \A j \in DOMAIN wire' : j \in DOMAIN wire \/ j = Len(wire) + 1
  <2>1. \A l \in Nat : \A j \in 1 .. l + 1 : j \in 1 .. l \/ j = l + 1
    OBVIOUS
  <2> QED BY <1>1, <1>5, <2>1
<1>7. \A j \in DOMAIN wire : j \in DOMAIN wire'
  <2>1. \A l \in Nat : \A j \in 1 .. l : j \in 1 .. l + 1
    OBVIOUS
  <2> QED BY <1>1, <1>5, <2>1
<1>8. Len(wire) + 1 \in DOMAIN wire'
  BY <1>1, <1>5
<1>9. CASE coming.at = 1
  <2>1. coming = [msg |-> coming.msg, at |-> 1]
    BY <1>1, <1>9, Lengths
  <2>2. On(wire)' = On(wire) \cup {coming.msg}
    <3>1. ASSUME NEW n \in Numbers, NEW k \in DOMAIN wire', wire'[k] = [msg |-> n, at |-> 1]
          PROVE  n \in On(wire) \cup {coming.msg}
      <4>1. CASE k \in DOMAIN wire
        BY <1>5, <3>1, <4>1 DEF On
      <4>2. CASE k = Len(wire) + 1
        BY <1>5, <2>1, <3>1, <4>2
      <4> QED BY <1>6, <4>1, <4>2
    <3>2. On(wire)' \subseteq On(wire) \cup {coming.msg}
      BY <3>1 DEF On
    <3>3. On(wire) \subseteq On(wire)'
      BY <1>5, <1>7 DEF On
    <3>4. coming.msg \in On(wire)'
      BY <1>1, <1>5, <1>8, <2>1 DEF On
    <3> QED BY <3>2, <3>3, <3>4
  <2>3. Pending' = Pending \cup {coming.msg}
    <3>1. On(buf)' = On(buf)
      BY <1>1 DEF On
    <3> QED BY <2>2, <3>1 DEF Pending
  <2>4. Said = coming.msg - 1 /\ coming.msg > Said
    BY <1>2, <1>9 DEF Said
  <2>6. InStep' = InStep
    BY ArriveUpcoming
  <2>7. HandedOver' = HandedOver
    BY <1>1 DEF HandedOver
  <2> QED BY <1>1, <1>4, <2>3, <2>4, <2>6, <2>7 DEF Stream!Announce
<1>10. CASE coming.at # 1
  <2>1. Said' = Said
    BY <1>4, <1>10 DEF Said
  <2>2. On(wire)' \subseteq On(wire)
    <3>1. ASSUME NEW n \in Numbers, NEW k \in DOMAIN wire', wire'[k] = [msg |-> n, at |-> 1]
          PROVE  n \in On(wire)
      <4>1. CASE k \in DOMAIN wire
        BY <1>5, <3>1, <4>1 DEF On
      <4>2. CASE k = Len(wire) + 1
        BY <1>5, <1>10, <3>1, <4>2
      <4> QED BY <1>6, <4>1, <4>2
    <3> QED BY <3>1 DEF On
  <2>3. Pending' \subseteq Pending
    <3>1. On(buf)' = On(buf)
      BY <1>1 DEF On
    <3> QED BY <2>2, <3>1 DEF Pending
  <2> QED BY <1>1, <2>1, <2>3, Losing
<1> QED BY <1>9, <1>10

LEMMA TakeTakes == TypeInv /\ Take => Stream!Take
<1> SUFFICES ASSUME TypeInv, Take PROVE Stream!Take
  OBVIOUS
<1>1. inbox \in Seq(Seq(Cells)) /\ inbox # <<>> /\ inbox' = Tail(inbox) /\ UNCHANGED <<wire, coming, pc, buf>>
  BY DEF TypeInv, TypeOK, Take, netVars, recvVars
<1>2. HandedOver # <<>> /\ HandedOver' = Tail(HandedOver)
  BY <1>1, ContentsTail, HandedOverIs
<1>3. Said' = Said /\ Pending' = Pending
  BY <1>1 DEF Said, Pending, On
<1>4. InStep' = InStep
  BY <1>1 DEF InStep, Upcoming, Begins
<1> QED BY <1>2, <1>3, <1>4 DEF Stream!Take

\* In step, the buffer that is handed over is the first packet on the way.
LEMMA WholePacket ==
  ASSUME TypeInv, OrderInv, HeaderInv, InStep, pc = "body", Len(buf) >= full
  PROVE  \E n \in Numbers : buf = Bytes(n) /\ n \in Pending /\ Upcoming.at = 1
                            /\ (\A m \in Pending : n <= m) /\ On(wire) = Pending \ {n}
<1>1. buf \in Seq(Cells) /\ wire \in Seq(Cells) /\ Len(buf) \in Nat /\ Len(buf) >= Header
      /\ DOMAIN buf = 1 .. Len(buf) /\ full \in Nat
  BY DEF TypeInv, TypeOK, HeaderInv
<1>2. buf # <<>>
  BY <1>1
<1>3. PICK n \in Numbers : /\ Begins(n)
                           /\ IF Len(buf) = Length(n) THEN Upcoming.at = 1
                              ELSE Upcoming = [msg |-> n, at |-> Len(buf) + 1]
  BY <1>2 DEF InStep
<1>4. Length(n) \in Nat /\ n \in Nat /\ \A k \in 1 .. Len(buf) : buf[k] = [msg |-> n, at |-> k]
  BY <1>1, <1>3, Lengths DEF Begins
<1>5. \A k \in 1 .. Header : buf[k] = [msg |-> n, at |-> k]
  BY <1>1, <1>4
<1>6. full = Length(n)
  BY <1>5 DEF HeaderInv
<1>7. Len(buf) = Length(n) /\ Upcoming.at = 1
  <2>1. Len(buf) <= Length(n)
    BY <1>3 DEF Begins
  <2> QED BY <1>1, <1>3, <1>4, <1>6, <2>1
<1>8. buf = Bytes(n)
  <2> DEFINE b == Bytes(n)
  <2>1. b \in Seq(Cells) /\ Len(b) = Length(n) /\ \A k \in 1 .. Length(n) : b[k] = [msg |-> n, at |-> k]
    BY BytesSeq
  <2> HIDE DEF b
  <2>2. \A k \in 1 .. Len(buf) : buf[k] = b[k]
    BY <1>4, <1>7, <2>1
  <2>3. buf = b
    BY <1>1, <1>7, <2>1, <2>2, SameSeq
  <2> QED BY <2>3 DEF b
<1>9. 1 \in DOMAIN buf /\ buf[1] = [msg |-> n, at |-> 1]
  <2>1. 1 \in 1 .. Header /\ 1 \in 1 .. Len(buf)
    BY <1>1, SizesAssumption
  <2> QED BY <1>1, <1>5, <2>1
<1>10. On(buf) = {n}
  <2>1. n \in On(buf)
    BY <1>9 DEF On
  <2>2. \A m \in On(buf) : m = n
    BY <1>1, <1>4 DEF On
  <2> QED BY <2>1, <2>2
<1>11. \A m \in On(wire) : m \in Nat /\ n < m
  <2> TAKE m \in On(wire)
  <2>1. PICK k \in DOMAIN wire : wire[k] = [msg |-> m, at |-> 1] /\ m \in Numbers
    BY DEF On
  <2>2. Before(buf[1], wire[k])
    BY <1>9 DEF OrderInv
  <2>3. n < m
    BY <1>9, <2>1, <2>2 DEF Before
  <2> QED BY <2>1, <2>3, Lengths
<1>12. Pending = {n} \cup On(wire)
  BY <1>10 DEF Pending
<1>13. On(wire) = Pending \ {n}
  <2>1. n \notin On(wire)
    BY <1>4, <1>11
  <2> QED BY <1>12, <2>1
<1>14. \A m \in Pending : n <= m
  BY <1>4, <1>11, <1>12
<1> QED BY <1>7, <1>8, <1>12, <1>13, <1>14

LEMMA DeliverDelivers ==
  TypeInv /\ OrderInv /\ HeaderInv /\ Deliver => Stream!Deliver \/ Stream!Garble \/ Stream!Lose
<1> SUFFICES ASSUME TypeInv, OrderInv, HeaderInv, Deliver
             PROVE  Stream!Deliver \/ Stream!Garble \/ Stream!Lose
  OBVIOUS
<1>1. /\ inbox \in Seq(Seq(Cells)) /\ buf \in Seq(Cells) /\ pc = "body" /\ Len(buf) >= full
      /\ UNCHANGED <<wire, coming>> /\ buf' = <<>> /\ pc' = "poll"
  BY DEF TypeInv, TypeOK, Deliver, Leave, netVars
<1>2. Pending' \subseteq Pending
  BY <1>1, SamePending
<1>3. Said' = Said
  BY <1>1 DEF Said
<1>4. CASE ~Admits
  <2>1. UNCHANGED inbox
    BY <1>4 DEF Deliver
  <2> QED BY <1>2, <1>3, <2>1, Losing
<1>5. CASE Admits
  <2>1. HandedOver' = Append(HandedOver, Content(buf))
    <3>1. inbox' = Append(inbox, buf)
      BY <1>5 DEF Deliver
    <3> QED BY <1>1, <3>1, ContentsAppend, HandedOverIs
  <2>2. CASE InStep
    <3>1. PICK n \in Numbers : buf = Bytes(n) /\ n \in Pending /\ Upcoming.at = 1
                               /\ (\A m \in Pending : n <= m) /\ On(wire) = Pending \ {n}
      BY <1>1, <2>2, WholePacket
    <3>2. Pending' = Pending \ {n}
      BY <1>1, <3>1 DEF Pending, On
    <3>3. Upcoming' = Upcoming
      BY <1>1 DEF Upcoming
    <3>4. InStep'
      BY <1>1, <3>1, <3>3 DEF InStep
    <3>5. Content(buf) = n
      BY <3>1, ContentRange
    <3>6. (~InStep)' = ~InStep
      BY <2>2, <3>4
    <3> QED BY <1>3, <2>1, <2>2, <3>1, <3>2, <3>5, <3>6 DEF Stream!Deliver
  <2>3. CASE ~InStep
    <3>1. (~InStep)' \in BOOLEAN
      BY Boolean
    <3>2. Content(buf) \in Numbers \cup {Garbage}
      BY ContentRange
    <3> QED BY <1>2, <1>3, <2>1, <2>3, <3>1, <3>2 DEF Stream!Garble
  <2> QED BY <2>2, <2>3
<1> QED BY <1>4, <1>5

LEMMA StreamStep == TypeInv /\ OrderInv /\ HeaderInv /\ [Next]_vars => [Stream!Next]_Stream!vars
<1> SUFFICES ASSUME TypeInv, OrderInv, HeaderInv, [Next]_vars PROVE Stream!Next
  BY DEF Stream!vars
<1>0. TypeOK /\ Len(buf) \in Nat /\ full \in Nat
  BY DEF TypeInv, TypeOK
<1>1. CASE Arrive
  BY <1>1, ArriveAnnounces DEF Stream!Next
<1>2. CASE Take
  BY <1>2, TakeTakes DEF Stream!Next
<1>3. CASE Deliver
  BY <1>3, DeliverDelivers DEF Stream!Next
<1>4. CASE UNCHANGED <<wire, coming, inbox>> /\ (UNCHANGED buf \/ buf' = <<>>)
  <2>1. Said' = Said /\ Pending' \subseteq Pending
    BY <1>4, SamePending DEF Said
  <2> QED BY <1>4, <2>1, Losing DEF Stream!Next
<1>5. CASE CloseElsewhere \/ OpenElsewhere \/ Retry \/ Reopen
  <2>1. Replaced /\ UNCHANGED <<buf, inbox>>
    BY <1>0, <1>5, CloseReplaces DEF CloseElsewhere, OpenElsewhere, Retry, Reopen, recvVars
  <2> QED BY <2>1, ReplacedLoses DEF Stream!Next
<1>6. ASSUME NEW count \in Nat, Reads(count), UNCHANGED <<coming, inbox>>
      PROVE  Stream!Next
  <2>1. Said' = Said
    BY <1>6 DEF Said
  <2>2. Pending' \subseteq Pending
    BY <1>6, ReadsPending
  <2> QED BY <1>6, <2>1, <2>2, Losing DEF Stream!Next
<1>7. CASE ReadHeader
  <2>1. Header - Len(buf) \in Nat /\ UNCHANGED <<coming, inbox>>
    BY <1>0, <1>7 DEF ReadHeader
  <2>2. Reads(Header - Len(buf)) \/ (UNCHANGED wire /\ buf' = <<>>)
    BY <1>7 DEF ReadHeader, Leave
  <2> QED BY <1>4, <1>6, <2>1, <2>2
<1>8. CASE ReadBody
  <2>1. full - Len(buf) \in Nat /\ UNCHANGED <<coming, inbox>>
    BY <1>0, <1>8 DEF ReadBody
  <2>2. Reads(full - Len(buf)) \/ (UNCHANGED wire /\ buf' = <<>>)
    BY <1>8 DEF ReadBody, Leave
  <2> QED BY <1>4, <1>6, <2>1, <2>2
<1>9. Break \/ Poll \/ HeaderRead \/ UNCHANGED vars =>
        UNCHANGED <<wire, coming, inbox>> /\ (UNCHANGED buf \/ buf' = <<>>)
  BY DEF Break, Poll, HeaderRead, Leave, vars, netVars, recvVars
<1> QED
  BY <1>1, <1>2, <1>3, <1>4, <1>5, <1>7, <1>8, <1>9 DEF Next, RecvThread

\* What recvTcp hands over while it is in step is whole packets of the server,
\* each once and in order, for any sizes, wherever the stream is cut and
\* however often the connection is lost or replaced.
THEOREM StreamImplemented == Spec => ImplementsPacketStream
<1>1. Init => Stream!Init
  <2> SUFFICES ASSUME Init PROVE Stream!Init
    OBVIOUS
  <2>1. wire = <<>> /\ buf = <<>> /\ inbox = <<>> /\ coming = [msg |-> 1, at |-> 1]
    BY DEF Init
  <2>2. Said = 0
    BY <2>1 DEF Said
  <2>3. Pending = {}
    BY <2>1 DEF Pending, On
  <2>4. InStep
    BY <2>1 DEF InStep, Upcoming
  <2>5. HandedOver = <<>>
    <3>1. inbox \in Seq(Seq(Cells)) /\ Len(inbox) = 0
      BY <2>1
    <3>2. HandedOver \in Seq(Numbers \cup {Garbage}) /\ Len(HandedOver) = 0
      BY <3>1, ContentsSeq, HandedOverIs
    <3> QED BY <3>2, EmptySeq
  <2>6. (~InStep) = FALSE
    BY <2>4
  <2> QED BY <2>2, <2>3, <2>5, <2>6 DEF Stream!Init
<1>2. Init => TypeInv
  BY InitTypes
<1>3. Init => OrderInv /\ HeaderInv
  BY DEF Init, OrderInv, HeaderInv
<1> QED
  BY <1>1, <1>2, <1>3, TypeStep, OrderStep, HeaderStep, StreamStep, PTL
  DEF Spec, ImplementsPacketStream, Stream!Spec

-----------------------------------------------------------------------------
(* How the reader gets out of step.  Within a packet, the bytes that have   *)
(* arrived follow one another, and a new packet follows its last byte.      *)

At(i) == IF i <= Len(wire) THEN wire[i] ELSE coming

ChainInv ==
  \A i \in 1 .. Len(wire) : \A j \in i + 1 .. Len(wire) + 1 :
    /\ wire[i].at + (j - i) <= Length(wire[i].msg) =>
         At(j) = [msg |-> wire[i].msg, at |-> wire[i].at + (j - i)]
    /\ wire[i].at + (j - i) = Length(wire[i].msg) + 1 => At(j).at = 1

ErrnoInv == errno = "again" => build = "emulator"

LEMMA ReadsChain ==
  ASSUME TypeInv, ChainInv, NEW count \in Nat, Reads(count), UNCHANGED coming
  PROVE  ChainInv'
<1>1. wire \in Seq(Cells) /\ Len(wire) \in Nat
  BY DEF TypeInv, TypeOK
<1>2. PICK k \in 1 .. Len(wire) : /\ Len(wire') = Len(wire) - k
                                  /\ \A i \in 1 .. Len(wire) - k : wire'[i] = wire[k + i]
  BY ReadsEffect DEF TypeInv
<1>3. ASSUME NEW j \in 1 .. Len(wire') + 1
      PROVE  At(j)' = At(k + j)
  <2>1. k \in Nat /\ j \in Nat /\ (j <= Len(wire') <=> k + j <= Len(wire))
    BY <1>1, <1>2, <1>3
  <2>2. j <= Len(wire') => wire'[j] = wire[k + j]
    BY <1>1, <1>2, <1>3
  <2> QED BY <2>1, <2>2 DEF At
<1>4. ASSUME NEW i \in 1 .. Len(wire'), NEW j \in i + 1 .. Len(wire') + 1
      PROVE  /\ k + i \in 1 .. Len(wire) /\ k + j \in (k + i) + 1 .. Len(wire) + 1
             /\ (k + j) - (k + i) = j - i /\ wire'[i] = wire[k + i] /\ At(j)' = At(k + j)
  <2>1. k \in Nat /\ i \in Nat /\ j \in Nat
    BY <1>1, <1>2, <1>4
  <2>2. i \in 1 .. Len(wire) - k /\ j \in 1 .. Len(wire') + 1
    BY <1>1, <1>2, <1>4, <2>1
  <2>3. k + i \in 1 .. Len(wire) /\ k + j \in (k + i) + 1 .. Len(wire) + 1 /\ (k + j) - (k + i) = j - i
    BY <1>1, <1>2, <1>4, <2>1
  <2> QED BY <1>2, <1>3, <2>2, <2>3
<1>5. ASSUME NEW i \in 1 .. Len(wire'), NEW j \in i + 1 .. Len(wire') + 1
      PROVE  /\ wire'[i].at + (j - i) <= Length(wire'[i].msg) =>
                  At(j)' = [msg |-> wire'[i].msg, at |-> wire'[i].at + (j - i)]
             /\ wire'[i].at + (j - i) = Length(wire'[i].msg) + 1 => At(j)'.at = 1
  <2> DEFINE h == k + i
             l == k + j
  <2>1. /\ h \in 1 .. Len(wire) /\ l \in h + 1 .. Len(wire) + 1
        /\ l - h = j - i /\ wire'[i] = wire[h] /\ At(j)' = At(l)
    BY <1>4
  <2> HIDE DEF h, l
  <2>2. /\ wire[h].at + (l - h) <= Length(wire[h].msg) =>
             At(l) = [msg |-> wire[h].msg, at |-> wire[h].at + (l - h)]
        /\ wire[h].at + (l - h) = Length(wire[h].msg) + 1 => At(l).at = 1
    BY <2>1 DEF ChainInv
  <2> QED BY <2>1, <2>2
<1>6. ChainInv' = \A i \in 1 .. Len(wire') : \A j \in i + 1 .. Len(wire') + 1 :
        /\ wire'[i].at + (j - i) <= Length(wire'[i].msg) =>
             At(j)' = [msg |-> wire'[i].msg, at |-> wire'[i].at + (j - i)]
        /\ wire'[i].at + (j - i) = Length(wire'[i].msg) + 1 => At(j)'.at = 1
  BY DEF ChainInv, At
<1> QED BY <1>5, <1>6

LEMMA ArriveChain == TypeInv /\ ChainInv /\ Arrive => ChainInv'
<1> SUFFICES ASSUME TypeInv, ChainInv, Arrive PROVE ChainInv'
  OBVIOUS
<1> DEFINE L == Len(wire)
<1>1. /\ wire \in Seq(Cells) /\ coming \in Cells /\ L \in Nat /\ DOMAIN wire = 1 .. L
      /\ coming' = After(coming) /\ coming.msg \in Numbers
  BY DEF TypeInv, TypeOK, Arrive
<1>2. coming.at <= Length(coming.msg) /\ coming.at \in Nat /\ Length(coming.msg) \in Nat
  BY <1>1, Lengths DEF TypeInv, BytesInv, Cells
<1>3. /\ Len(wire') = L + 1
      /\ \A i \in 1 .. L : wire'[i] = wire[i]
      /\ wire'[L + 1] = coming
  <2>1. /\ Append(wire, coming) \in Seq(Cells) /\ Len(Append(wire, coming)) = Len(wire) + 1
        /\ \A i \in 1 .. Len(wire) : Append(wire, coming)[i] = wire[i]
        /\ Append(wire, coming)[Len(wire) + 1] = coming
    BY <1>1, AppendProperties
  <2> QED BY <2>1 DEF Arrive
<1>4. \A i \in 1 .. L : wire[i].at \in Nat /\ wire[i].msg \in Numbers /\ Length(wire[i].msg) \in Nat
  <2> TAKE i \in 1 .. L
  <2>1. wire[i] \in Cells /\ i \in DOMAIN wire
    BY <1>1
  <2>2. wire[i].msg \in Numbers
    BY <2>1 DEF TypeInv, BytesInv
  <2> QED BY <2>1, <2>2, Lengths DEF Cells
<1> HIDE DEF L
<1>5. /\ \A j \in 1 .. L + 1 : At(j)' = At(j)
      /\ \A j : j = L + 2 => At(j)' = After(coming)
      /\ At(L + 1) = coming
  <2>1. \A j \in 1 .. L + 1 : At(j)' = At(j)
    <3> TAKE j \in 1 .. L + 1
    <3>1. CASE j \in 1 .. L
      BY <1>1, <1>3, <3>1 DEF At, L
    <3>2. CASE j = L + 1
      BY <1>1, <1>3, <3>2 DEF At, L
    <3> QED BY <1>1, <3>1, <3>2
  <2>2. \A j : j = L + 2 => At(j)' = After(coming)
    BY <1>1, <1>3 DEF At, L
  <2> QED BY <1>1, <2>1, <2>2 DEF At, L
<1>6. /\ coming.at < Length(coming.msg) => After(coming) = [msg |-> coming.msg, at |-> coming.at + 1]
      /\ coming.at = Length(coming.msg) => After(coming).at = 1
  <2>1. \A c \in Cells : [c EXCEPT !.at = @ + 1] = [msg |-> c.msg, at |-> c.at + 1]
    BY DEF Cells
  <2>2. [coming EXCEPT !.at = @ + 1] = [msg |-> coming.msg, at |-> coming.at + 1]
    BY <1>1, <2>1
  <2> QED BY <1>2, <2>2 DEF After
<1>7. ASSUME NEW i \in 1 .. L + 1, NEW j \in i + 1 .. L + 2
      PROVE  /\ wire'[i].at + (j - i) <= Length(wire'[i].msg) =>
                  At(j)' = [msg |-> wire'[i].msg, at |-> wire'[i].at + (j - i)]
             /\ wire'[i].at + (j - i) = Length(wire'[i].msg) + 1 => At(j)'.at = 1
  <2>1. i \in Nat /\ j \in Nat /\ (j = L + 2 \/ j \in i + 1 .. L + 1) /\ (i = L + 1 \/ i \in 1 .. L)
    BY <1>1, <1>7
  <2>2. CASE j # L + 2
    <3>1. i \in 1 .. L /\ j \in 1 .. L + 1 /\ j \in i + 1 .. L + 1
      BY <1>1, <2>1, <2>2
    <3>2. wire'[i] = wire[i] /\ At(j)' = At(j)
      BY <1>3, <1>5, <3>1
    <3> QED BY <3>1, <3>2 DEF ChainInv, L
  <2>3. CASE j = L + 2 /\ i = L + 1
    <3>1. wire'[i] = coming /\ At(j)' = After(coming) /\ j - i = 1
      <4>1. j - i = 1
        BY <1>1, <2>3
      <4> QED BY <1>3, <1>5, <2>3, <4>1
    <3> QED BY <1>2, <1>6, <3>1
  <2>4. CASE j = L + 2 /\ i \in 1 .. L
    <3> DEFINE c == wire[i]
               t == c.at + ((L + 1) - i)
    <3>1. wire'[i] = c /\ At(j)' = After(coming) /\ c.at \in Nat /\ Length(c.msg) \in Nat
      <4>1. wire'[i] = c
        BY <1>3, <2>4
      <4>2. At(j)' = After(coming)
        BY <1>5, <2>4
      <4>3. c.at \in Nat /\ Length(c.msg) \in Nat
        BY <1>4, <2>4
      <4> QED BY <4>1, <4>2, <4>3
    <3>2. L + 1 \in i + 1 .. L + 1
      BY <1>1, <2>4
    <3>3. t <= Length(c.msg) => coming = [msg |-> c.msg, at |-> t]
      BY <1>5, <2>4, <3>2 DEF ChainInv, L
    <3>4. c.at + (j - i) = t + 1 /\ t \in Nat
      <4>1. i \in Nat /\ i <= L /\ c.at \in Nat /\ L \in Nat
        BY <1>1, <2>4, <3>1
      <4> HIDE DEF c
      <4> QED BY <2>4, <4>1
    <3> HIDE DEF c, t
    <3>5. t + 1 <= Length(c.msg) => After(coming) = [msg |-> c.msg, at |-> t + 1]
      BY <1>6, <3>1, <3>3, <3>4
    <3>6. t + 1 = Length(c.msg) + 1 => After(coming).at = 1
      BY <1>6, <3>1, <3>3, <3>4
    <3> QED BY <3>1, <3>4, <3>5, <3>6
  <2> QED BY <2>1, <2>2, <2>3, <2>4
<1>8. ChainInv' = \A i \in 1 .. Len(wire') : \A j \in i + 1 .. Len(wire') + 1 :
        /\ wire'[i].at + (j - i) <= Length(wire'[i].msg) =>
             At(j)' = [msg |-> wire'[i].msg, at |-> wire'[i].at + (j - i)]
        /\ wire'[i].at + (j - i) = Length(wire'[i].msg) + 1 => At(j)'.at = 1
  BY DEF ChainInv, At
<1>9. Len(wire') = L + 1 /\ Len(wire') + 1 = L + 2
  BY <1>1, <1>3
<1> QED BY <1>7, <1>8, <1>9

LEMMA ChainStep == TypeInv /\ ChainInv /\ [Next]_vars => ChainInv'
<1> SUFFICES ASSUME TypeInv, ChainInv, [Next]_vars PROVE ChainInv'
  OBVIOUS
<1>0. TypeOK /\ Len(buf) \in Nat /\ full \in Nat
  BY DEF TypeInv, TypeOK
<1>1. CASE Arrive
  BY <1>1, ArriveChain
<1>2. CASE UNCHANGED <<wire, coming>>
  BY <1>2 DEF ChainInv, At
<1>3. CASE CloseElsewhere \/ OpenElsewhere \/ Retry \/ Reopen
  <2>1. Len(wire') = 0
    BY <1>0, <1>3, CloseReplaces DEF CloseElsewhere, OpenElsewhere, Retry, Reopen, Replaced
  <2> QED BY <2>1 DEF ChainInv
<1>4. ASSUME NEW count \in Nat, Reads(count), UNCHANGED coming PROVE ChainInv'
  BY <1>4, ReadsChain
<1>5. CASE ReadHeader
  BY <1>0, <1>2, <1>4, <1>5 DEF ReadHeader
<1>6. CASE ReadBody
  BY <1>0, <1>2, <1>4, <1>6 DEF ReadBody
<1>7. Break \/ Take \/ Poll \/ HeaderRead \/ Deliver \/ UNCHANGED vars => UNCHANGED <<wire, coming>>
  BY DEF Break, Take, Poll, HeaderRead, Deliver, vars, netVars
<1> QED
  BY <1>1, <1>2, <1>3, <1>5, <1>6, <1>7 DEF Next, RecvThread

LEMMA ErrnoStep == ErrnoInv /\ [Next]_vars => ErrnoInv'
<1> SUFFICES ASSUME ErrnoInv, [Next]_vars PROVE ErrnoInv'
  OBVIOUS
<1>1. CASE UNCHANGED <<errno, build>>
  BY <1>1 DEF ErrnoInv
<1>2. CASE ReadHeader
  BY <1>2 DEF ReadHeader, Reads, Fails, ErrnoInv
<1>3. CASE ReadBody
  BY <1>3 DEF ReadBody, Reads, Fails, ErrnoInv
<1>4. ReadHeader \/ ReadBody \/ UNCHANGED <<errno, build>>
  BY DEF Next, RecvThread, Arrive, Break, CloseElsewhere, OpenElsewhere, Take, Poll, HeaderRead,
         Deliver, Retry, Reopen, vars, recvVars
<1> QED
  BY <1>1, <1>2, <1>3, <1>4

\* Reading no further than the packet goes keeps in step with it.
LEMMA ReadsInStep ==
  ASSUME TypeInv, ChainInv, InStep, pc # "retry", NEW count \in Nat, Reads(count), UNCHANGED coming,
         \A n \in Numbers : buf = <<>> \/ Begins(n) => Len(buf) + count <= Length(n)
  PROVE  InStep'
<1>1. buf \in Seq(Cells) /\ wire \in Seq(Cells) /\ Len(buf) \in Nat /\ Len(wire) \in Nat
      /\ DOMAIN buf = 1 .. Len(buf) /\ DOMAIN wire = 1 .. Len(wire) /\ wire # <<>>
  BY ReadsEffect DEF TypeInv, TypeOK
<1>2. PICK k \in 1 .. Len(wire) :
        /\ k <= count
        /\ buf' \in Seq(Cells) /\ Len(buf') = Len(buf) + k /\ DOMAIN buf' = 1 .. Len(buf) + k
        /\ Len(wire') = Len(wire) - k /\ wire' \in Seq(Cells)
        /\ \A i \in 1 .. Len(buf) : buf'[i] = buf[i]
        /\ \A i \in 1 .. k : buf'[Len(buf) + i] = wire[i]
        /\ \A i \in 1 .. Len(wire) - k : wire'[i] = wire[k + i]
  BY ReadsEffect DEF TypeInv
<1>3. 1 \in 1 .. Len(wire) /\ 1 \in DOMAIN wire /\ Upcoming = wire[1] /\ k \in Nat /\ k >= 1
  BY <1>1, <1>2 DEF Upcoming
<1>4. \A n \in Numbers : Length(n) \in Nat
  BY Lengths
<1>5. \E n \in Numbers : /\ buf = <<>> \/ Begins(n)
                         /\ \A i \in 1 .. Len(buf) : buf[i] = [msg |-> n, at |-> i]
                         /\ wire[1] = [msg |-> n, at |-> Len(buf) + 1]
  <2>1. CASE buf = <<>>
    <3>1. Upcoming.at = 1
      BY <2>1 DEF InStep
    <3>2. wire[1].msg \in Numbers /\ wire[1] = [msg |-> wire[1].msg, at |-> 1]
      <4>1. wire[1] \in Cells
        BY <1>1, <1>3
      <4>2. wire[1].msg \in Numbers
        BY <1>3 DEF TypeInv, BytesInv
      <4>3. wire[1] = [msg |-> wire[1].msg, at |-> wire[1].at]
        BY <4>1, Lengths
      <4> QED BY <1>3, <3>1, <4>2, <4>3
    <3>3. Len(buf) = 0
      BY <2>1
    <3> QED BY <2>1, <3>2, <3>3
  <2>2. CASE buf # <<>>
    <3>1. PICK n \in Numbers : /\ Begins(n)
                               /\ IF Len(buf) = Length(n) THEN Upcoming.at = 1
                                  ELSE Upcoming = [msg |-> n, at |-> Len(buf) + 1]
      BY <2>2 DEF InStep
    <3>2. Len(buf) + count <= Length(n)
      BY <3>1
    <3>3. Len(buf) # Length(n)
      BY <1>1, <1>2, <1>3, <1>4, <3>2
    <3> QED BY <1>1, <1>3, <3>1, <3>3 DEF Begins
  <2> QED BY <2>1, <2>2
<1>6. PICK n \in Numbers : /\ buf = <<>> \/ Begins(n)
                           /\ \A i \in 1 .. Len(buf) : buf[i] = [msg |-> n, at |-> i]
                           /\ wire[1] = [msg |-> n, at |-> Len(buf) + 1]
  BY <1>5
<1> DEFINE b == Len(buf)
           l == Length(n)
<1>7. b \in Nat /\ l \in Nat /\ b + k <= l
  <2>1. b + count <= l
    BY <1>6
  <2> QED BY <1>1, <1>2, <1>3, <1>4, <2>1
<1>8. \A j \in 2 .. Len(wire) + 1 : /\ b + j <= l => At(j) = [msg |-> n, at |-> b + j]
                                    /\ b + j = l + 1 => At(j).at = 1
  <2> TAKE j \in 2 .. Len(wire) + 1
  <2>1. wire[1].at = b + 1 /\ wire[1].msg = n
    BY <1>6
  <2>2. (b + 1) + (j - 1) = b + j /\ j \in 1 + 1 .. Len(wire) + 1
    BY <1>1, <1>7
  <2>3. /\ wire[1].at + (j - 1) <= Length(wire[1].msg) =>
             At(j) = [msg |-> wire[1].msg, at |-> wire[1].at + (j - 1)]
        /\ wire[1].at + (j - 1) = Length(wire[1].msg) + 1 => At(j).at = 1
    BY <1>3, <2>2 DEF ChainInv
  <2> HIDE DEF b
  <2> QED BY <2>1, <2>2, <2>3
<1>9. \A i \in 1 .. k : wire[i] = [msg |-> n, at |-> b + i]
  <2> TAKE i \in 1 .. k
  <2>1. CASE i = 1
    BY <1>6, <2>1
  <2>2. CASE i # 1
    <3>1. i \in 2 .. Len(wire) + 1 /\ i <= Len(wire) /\ b + i <= l
      BY <1>1, <1>2, <1>3, <1>7, <2>2
    <3> HIDE DEF b, l
    <3> QED BY <1>8, <3>1 DEF At
  <2> QED BY <2>1, <2>2
<1>10. \A i \in 1 .. b + k : buf'[i] = [msg |-> n, at |-> i]
  <2> TAKE i \in 1 .. b + k
  <2>1. CASE i <= b
    BY <1>1, <1>2, <1>6, <1>7, <2>1
  <2>2. CASE ~(i <= b)
    <3> DEFINE h == i - b
    <3>1. h \in 1 .. k /\ b + h = i
      BY <1>3, <1>7, <2>2
    <3> HIDE DEF h
    <3> QED BY <1>2, <1>9, <3>1
  <2> QED BY <2>1, <2>2
<1>11. Begins(n)'
  BY <1>2, <1>7, <1>10 DEF Begins
<1>12. Upcoming' = At(k + 1)
  <2>1. CASE k = Len(wire)
    <3>1. wire' = <<>>
      BY <1>1, <1>2, <2>1, EmptySeq
    <3> QED BY <1>1, <2>1, <3>1 DEF Upcoming, At
  <2>2. CASE k # Len(wire)
    <3>1. Len(wire') # 0 /\ 1 \in 1 .. Len(wire) - k /\ k + 1 <= Len(wire)
      <4>1. \A m \in Nat : k \in 1 .. m /\ k # m => m - k # 0 /\ 1 \in 1 .. m - k /\ k + 1 <= m
        BY <1>3
      <4> QED BY <1>1, <1>2, <2>2, <4>1
    <3>2. wire' # <<>> /\ wire'[1] = wire[k + 1]
      BY <1>2, <3>1
    <3> QED BY <3>1, <3>2 DEF Upcoming, At
  <2> QED BY <2>1, <2>2
<1>13. k + 1 \in 2 .. Len(wire) + 1 /\ b + (k + 1) = (b + k) + 1
  BY <1>1, <1>3, <1>7
<1>14. IF Len(buf') = l THEN Upcoming'.at = 1 ELSE Upcoming' = [msg |-> n, at |-> Len(buf') + 1]
  <2> HIDE DEF l
  <2>1. Len(buf') = b + k
    BY <1>2
  <2> HIDE DEF b
  <2>2. CASE b + k = l
    BY <1>7, <1>8, <1>12, <1>13, <2>1, <2>2
  <2>3. CASE b + k # l
    <3>1. b + (k + 1) <= l
      BY <1>3, <1>7, <1>13, <2>3
    <3>2. At(k + 1) = [msg |-> n, at |-> b + (k + 1)]
      BY <1>8, <1>13, <3>1
    <3> QED BY <1>12, <1>13, <2>1, <2>3, <3>2
  <2> QED BY <2>2, <2>3
<1>15. buf' # <<>>
  BY <1>1, <1>2, <1>3
<1> QED BY <1>11, <1>14, <1>15 DEF InStep, Length

LEMMA StrayStep ==
  TypeInv /\ OrderInv /\ HeaderInv /\ ChainInv /\ ErrnoInv /\ [Next]_vars =>
    [InStep /\ ~InStep' => StrayCause]_vars
<1> SUFFICES ASSUME TypeInv, OrderInv, HeaderInv, ChainInv, ErrnoInv, Next, InStep, ~StrayCause
             PROVE  InStep'
  <2>1. UNCHANGED vars => InStep' = InStep
    BY DEF vars, netVars, recvVars, InStep, Upcoming, Begins
  <2> QED BY <2>1
<1>0. /\ TypeOK /\ buf \in Seq(Cells) /\ Len(buf) \in Nat /\ full \in Nat
      /\ pc \notin {"header", "body"} => buf = <<>>
  <2>1. TypeOK /\ buf \in Seq(Cells) /\ Len(buf) \in Nat /\ full \in Nat
    BY DEF TypeInv, TypeOK
  <2>2. pc \notin {"header", "body"} => Len(buf) = 0
    BY <2>1 DEF TypeOK
  <2> QED BY <2>1, <2>2, EmptySeq
<1>1. CASE UNCHANGED <<wire, coming, buf>> /\ pc # "retry"
  BY <1>1 DEF InStep, Upcoming, Begins
<1>2. CASE UNCHANGED <<wire, coming>> /\ buf = <<>> /\ buf' = <<>> /\ pc # "retry"
  BY <1>2 DEF InStep, Upcoming
<1>3. CASE Arrive
  BY <1>3, ArriveUpcoming
<1>4. CASE Break \/ Take
  BY <1>4 DEF Break, Take, netVars, recvVars, InStep, Upcoming, Begins
<1>5. CASE CloseElsewhere \/ OpenElsewhere \/ Retry \/ Reopen
  <2>1. Replaced /\ UNCHANGED buf
    BY <1>0, <1>5, CloseReplaces DEF CloseElsewhere, OpenElsewhere, Retry, Reopen, recvVars
  <2>2. wire' = <<>> /\ Upcoming'.at = 1
    BY <2>1, AnewCell DEF Replaced, Upcoming
  <2>3. CASE buf = <<>>
    BY <2>1, <2>2, <2>3 DEF InStep
  <2>4. CASE buf # <<>>
    <3>1. CloseElsewhere \/ OpenElsewhere
      BY <1>0, <1>5, <2>4 DEF Retry, Reopen
    <3>2. other' # other
      BY <3>1 DEF CloseElsewhere, OpenElsewhere
    <3> QED BY <1>0, <2>4, <3>2 DEF StrayCause
  <2> QED BY <2>3, <2>4
<1>6. CASE Poll
  BY <1>1, <1>6 DEF Poll, netVars
<1>7. CASE ReadHeader
  <2>1. Header - Len(buf) \in Nat /\ UNCHANGED coming /\ pc = "header"
    BY <1>0, <1>7 DEF ReadHeader
  <2>2. CASE Reads(Header - Len(buf))
    <3>1. \A n \in Numbers : Len(buf) + (Header - Len(buf)) <= Length(n)
      <4>1. Len(buf) + (Header - Len(buf)) = Header
        BY <1>0
      <4>2. \A n \in Numbers : Header <= Length(n)
        <5> TAKE n \in Numbers
        <5>1. Length(n) \in Header .. MaxPack
          BY Lengths
        <5> QED BY <5>1
      <4> QED BY <4>1, <4>2
    <3> QED BY <2>1, <2>2, <3>1, ReadsInStep
  <2>3. ASSUME NEW e \in {"again", "other"}, Fails(e), UNCHANGED wire, buf' = <<>>,
               pc' = IF e = "again" THEN "poll" ELSE "retry"
        PROVE  InStep'
    <3>1. CASE e # "again"
      BY <2>3, <3>1 DEF InStep
    <3>2. CASE e = "again" /\ buf = <<>>
      BY <1>2, <2>1, <2>3, <3>2
    <3>3. CASE e = "again" /\ buf # <<>>
      <4>1. wire = <<>> /\ build = "emulator"
        BY <2>3, <3>3 DEF Fails, ErrnoInv
      <4> QED BY <2>1, <2>3, <3>3, <4>1 DEF StrayCause
    <3> QED BY <3>1, <3>2, <3>3
  <2> QED BY <1>7, <2>2, <2>3 DEF ReadHeader, Leave
<1>8. CASE HeaderRead
  <2>1. pc = "header" /\ Len(buf) = Header /\ UNCHANGED <<wire, coming>> /\ (UNCHANGED buf \/ pc' = "poll")
    BY <1>8 DEF HeaderRead, Leave, netVars
  <2>2. pc' # "poll"
    BY <2>1 DEF StrayCause
  <2> QED BY <1>1, <2>1, <2>2
<1>9. CASE ReadBody
  <2>1. full - Len(buf) \in Nat /\ UNCHANGED coming /\ pc = "body" /\ Len(buf) >= Header
    BY <1>0, <1>9 DEF ReadBody, HeaderInv
  <2>2. CASE Reads(full - Len(buf))
    <3>1. ASSUME NEW n \in Numbers, buf = <<>> \/ Begins(n)
          PROVE  Len(buf) + (full - Len(buf)) <= Length(n)
      <4>1. buf # <<>>
        BY <2>1
      <4>2. DOMAIN buf = 1 .. Len(buf) /\ \A i \in 1 .. Header : i \in 1 .. Len(buf)
        BY <1>0, <2>1
      <4>3. \A k \in 1 .. Header : buf[k] = [msg |-> n, at |-> k]
        BY <3>1, <4>1, <4>2 DEF Begins
      <4>4. full = Length(n)
        BY <2>1, <4>3 DEF HeaderInv
      <4>5. Len(buf) + (full - Len(buf)) = full
        BY <1>0
      <4> QED BY <1>0, <4>4, <4>5
    <3> QED BY <2>1, <2>2, <3>1, ReadsInStep
  <2>3. Leave("retry") => InStep'
    BY DEF Leave, InStep
  <2> QED BY <1>9, <2>2, <2>3 DEF ReadBody
<1>10. CASE Deliver
  <2>1. pc = "body" /\ Len(buf) >= full /\ UNCHANGED <<wire, coming>> /\ buf' = <<>>
    BY <1>10 DEF Deliver, Leave, netVars
  <2>2. Upcoming.at = 1
    BY <2>1, WholePacket
  <2> QED BY <2>1, <2>2 DEF InStep, Upcoming
<1> QED
  BY <1>3, <1>4, <1>5, <1>6, <1>7, <1>8, <1>9, <1>10 DEF Next, RecvThread

\* recvTcp gets out of step with the packets in the three ways of StrayCause
\* only, for any sizes, any number of packets and of broken connections.
THEOREM StraysOnlySo == Spec => StrayCauses
<1>1. Init => TypeInv
  BY InitTypes
<1>2. Init => OrderInv /\ HeaderInv
  BY DEF Init, OrderInv, HeaderInv
<1>3. Init => ChainInv /\ ErrnoInv
  <2> SUFFICES ASSUME Init PROVE ChainInv /\ ErrnoInv
    OBVIOUS
  <2>1. Len(wire) = 0 /\ errno = "other"
    BY DEF Init
  <2> QED BY <2>1 DEF ChainInv, ErrnoInv
<1> QED
  BY <1>1, <1>2, <1>3, TypeStep, OrderStep, HeaderStep, ChainStep, ErrnoStep, StrayStep, PTL
  DEF Spec, StrayCauses

=============================================================================
