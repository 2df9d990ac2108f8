------------------------------ MODULE OtaProofs ------------------------------
(***************************************************************************)
(* Ota, for every size of the image, of a group and of the packets: the    *)
(* variables keep their types and the decoder never keeps a whole group    *)
(* back, and while the two threads are not in the worker at once and no    *)
(* flash operation fails, what passes the digest check is what was written. *)
(***************************************************************************)
EXTENDS Ota, TLAPS

-----------------------------------------------------------------------------
(* Type correctness.                                                       *)

\* The image is not empty.
LEMMA SizePositive == Size \in Nat \ {0}
  BY OtaAssumption DEF Size

\* The characters of all the whole groups in a text of length n.
LEMMA WholeGroups ==
  ASSUME NEW n \in Nat
  PROVE  /\ (n \div Group) * Group \in 0..n
         /\ n - (n \div Group) * Group < Group
<1>1. Group \in Nat \ {0}
  BY OtaAssumption
<1>2. n \div Group \in Nat /\ n = (n \div Group) * Group + (n % Group) /\ n % Group \in 0..Group - 1
  BY <1>1
<1>3. (n \div Group) * Group \in Nat
  BY <1>1, <1>2
<1> QED
  BY <1>1, <1>2, <1>3

\* Parts of a text are texts.
LEMMA Parts ==
  ASSUME NEW S, NEW q \in Seq(S), NEW k \in 0..Len(q)
  PROVE  /\ SubSeq(q, 1, k) \in Seq(S)
         /\ SubSeq(q, k + 1, Len(q)) \in Seq(S) /\ Len(SubSeq(q, k + 1, Len(q))) = Len(q) - k
  OBVIOUS

\* The decoder gives and keeps characters of the text, and keeps no whole group.
LEMMA DecoderTyped ==
  ASSUME NEW text \in Seq(1..Size), NEW had \in Seq(1..Size), Len(had) < Group
  PROVE  /\ Decoder(text, had).chunk \in Seq(1..Size)
         /\ Decoder(text, had).carry \in Seq(1..Size)
         /\ Len(Decoder(text, had).carry) < Group
<1> DEFINE all == had \o text
           whole == (Len(all) \div Group) * Group
<1>1. all \in Seq(1..Size) /\ Len(all) \in Nat
  OBVIOUS
<1>2. whole \in 0..Len(all) /\ Len(all) - whole < Group
  BY <1>1, WholeGroups
<1> HIDE DEF all, whole
<1>3. /\ SubSeq(all, 1, whole) \in Seq(1..Size)
      /\ SubSeq(all, whole + 1, Len(all)) \in Seq(1..Size)
      /\ Len(SubSeq(all, whole + 1, Len(all))) < Group
  BY <1>1, <1>2, Parts
<1>4. CASE Len(text) < Buffer + Group - Len(had)
  <2>1. Decoder(text, had) = [chunk |-> SubSeq(all, 1, whole), carry |-> SubSeq(all, whole + 1, Len(all))]
    BY <1>4 DEF Decoder, all, whole
  <2> QED
    BY <1>3, <2>1
<1>5. CASE ~(Len(text) < Buffer + Group - Len(had))
  <2>1. Decoder(text, had) = [chunk |-> <<>>, carry |-> had]
    BY <1>5 DEF Decoder
  <2> QED
    BY <2>1
<1> QED
  BY <1>4, <1>5

\* Every step leaves the variables well-typed.
LEMMA TypeStep == TypeOK /\ [Next]_vars => TypeOK'
<1> SUFFICES ASSUME TypeOK, [Next]_vars
             PROVE  TypeOK'
  OBVIOUS
<1> USE DEF coder, job, written, threads, sender, counts
<1>1. \A t \in Thread, where \in {"idle", "decode", "task", "write", "compare"} :
        Go(t, where) => pc' \in [Thread -> {"idle", "decode", "task", "write", "compare"}]
  BY DEF Go, TypeOK
<1>2. "mqtt" \in Thread /\ "timer" \in Thread
  BY DEF Thread
<1>3. <<>> \in Seq(1..Size) /\ Len(<<>>) < Group
  BY OtaAssumption
<1>4. ASSUME NEW right \in BOOLEAN, Start(right)
      PROVE  TypeOK'
  <2>1. starts' \in 0..MaxStarts /\ sent' \in 0..Size
    BY <1>4, OtaAssumption, SizePositive DEF Start, TypeOK
  <2>2. pc' \in [Thread -> {"idle", "decode", "task", "write", "compare"}]
    BY <1>1, <1>2, <1>4 DEF Start
  <2>3. course' \in {"smooth", "stalled", "spoiled"} /\ intended' \in BOOLEAN
    BY <1>4 DEF Start
  <2>4. armed' \in BOOLEAN
    BY <1>4, Zenon DEF Start, TypeOK
  <2> QED
    BY <1>3, <1>4, <2>1, <2>2, <2>3, <2>4 DEF Start, TypeOK
<1>5. ASSUME NEW n \in 1..Buffer, Packet(n)
      PROVE  TypeOK'
  <2>1. sent' \in 0..Size
    BY <1>5, OtaAssumption, SizePositive DEF Packet, TypeOK
  <2>2. course' \in {"smooth", "stalled", "spoiled"}
    BY <1>5 DEF Packet, Course, TypeOK
  <2>3. [k \in 1..n |-> sent + k] \in Seq(1..Size)
    <3>1. \A k \in 1..n : sent + k \in 1..Size
      BY <1>5, SizePositive DEF Packet, TypeOK
    <3> QED
      BY <3>1
  <2>4. packet' \in Seq(1..Size) /\ chunk' \in Seq(1..Size)
    BY <1>3, <1>5, <2>3 DEF Packet, TypeOK
  <2>5. pc' \in [Thread -> {"idle", "decode", "task", "write", "compare"}]
    BY <1>1, <1>2, <1>5 DEF Packet, TypeOK
  <2> QED
    BY <1>5, <2>1, <2>2, <2>4, <2>5 DEF Packet, TypeOK
<1>6. CASE Expire
  <2>1. expired' \in 0..MaxExpire /\ course' \in {"smooth", "stalled", "spoiled"}
    BY <1>6, OtaAssumption DEF Expire, Course, TypeOK
  <2> QED
    BY <1>1, <1>2, <1>6, <2>1 DEF Expire, TypeOK
<1>7. CASE Decode
  <2>1. chunk' \in Seq(1..Size) /\ carry' \in Seq(1..Size) /\ Len(carry') < Group
    BY <1>7, DecoderTyped DEF Decode, TypeOK
  <2>2. md5' \in Seq(1..Size) \cup {Spent}
    BY <1>7, <2>1 DEF Decode, TypeOK
  <2> QED
    BY <1>1, <1>2, <1>3, <1>7, <2>1, <2>2 DEF Decode, TypeOK
<1>8. ASSUME Works \/ Fails
      PROVE  failed' \in 0..MaxFail /\ course' \in {"smooth", "stalled", "spoiled"}
  BY <1>8, OtaAssumption DEF Works, Fails, TypeOK
<1>9. ASSUME NEW t \in Thread, Idle(t)
      PROVE  TypeOK'
  BY <1>1, <1>9 DEF Idle, TypeOK
<1>10. ASSUME NEW t \in Thread, OtaStart(t)
       PROVE  TypeOK'
  <2>1. handles' \in Nat /\ flash' \in Seq(1..Size) /\ decoder' \in {"none", "live", "freed"}
    <3>1. \/ handles' = handles + 1 /\ flash' = <<>> /\ UNCHANGED decoder
          \/ decoder' = "freed" /\ UNCHANGED <<handles, flash>>
      BY <1>10 DEF OtaStart
    <3>2. handles \in Nat /\ flash \in Seq(1..Size) /\ decoder \in {"none", "live", "freed"}
      BY DEF TypeOK
    <3>3. CASE handles' = handles + 1 /\ flash' = <<>> /\ UNCHANGED decoder
      BY <1>3, <3>2, <3>3
    <3>4. CASE decoder' = "freed" /\ UNCHANGED <<handles, flash>>
      BY <3>2, <3>4
    <3> QED
      BY <3>1, <3>3, <3>4
  <2>2. Works \/ Fails
    BY <1>10 DEF OtaStart
  <2> QED
    BY <1>1, <1>8, <1>10, <2>1, <2>2 DEF OtaStart, TypeOK
<1>11. ASSUME NEW t \in Thread, OtaData(t)
       PROVE  TypeOK'
  <2>1. /\ partial' \in [Thread -> Nat] /\ state' \in {"IDLE", "START", "DATA", "FINISH", "ERROR"}
        /\ pc' \in [Thread -> {"idle", "decode", "task", "write", "compare"}]
    BY <1>1, <1>11 DEF OtaData, TypeOK
  <2> QED
    BY <1>11, <2>1 DEF OtaData, TypeOK
<1>12. ASSUME NEW t \in Thread, Write(t)
       PROVE  TypeOK'
  <2>1. sum' \in Nat
    BY <1>12 DEF Write, TypeOK
  <2>2. flash' \in Seq(1..Size) /\ decoder' \in {"none", "live", "freed"}
    <3>1. \/ flash' = flash \o chunk /\ UNCHANGED decoder
          \/ decoder' = "freed" /\ UNCHANGED flash
      BY <1>12 DEF Write
    <3>2. flash \in Seq(1..Size) /\ chunk \in Seq(1..Size) /\ decoder \in {"none", "live", "freed"}
      BY DEF TypeOK
    <3>3. CASE flash' = flash \o chunk /\ UNCHANGED decoder
      BY <3>2, <3>3
    <3>4. CASE decoder' = "freed" /\ UNCHANGED flash
      BY <3>2, <3>4
    <3> QED
      BY <3>1, <3>3, <3>4
  <2>3. Works \/ Fails
    BY <1>12 DEF Write
  <2> QED
    BY <1>1, <1>8, <1>12, <2>1, <2>2, <2>3 DEF Write, TypeOK
<1>13. ASSUME NEW t \in Thread, Compare(t)
       PROVE  TypeOK'
  BY <1>1, <1>13 DEF Compare, TypeOK
<1>14. ASSUME NEW t \in Thread, Reject(t)
       PROVE  TypeOK'
  BY <1>1, <1>14 DEF Reject, TypeOK
<1>15. ASSUME NEW t \in Thread, Install(t)
       PROVE  TypeOK'
  BY <1>3, <1>15 DEF Install, TypeOK
<1>16. ASSUME NEW t \in Thread, GiveUp(t)
       PROVE  TypeOK'
  BY <1>1, <1>16 DEF GiveUp, TypeOK
<1>17. ASSUME NEW t \in Thread, UseFreed(t)
       PROVE  TypeOK'
  BY <1>17 DEF UseFreed, TypeOK
<1>18. CASE UNCHANGED vars
  BY <1>18 DEF vars, TypeOK
<1> QED
  BY <1>4, <1>5, <1>6, <1>7, <1>9, <1>10, <1>11, <1>12, <1>13, <1>14, <1>15, <1>16, <1>17,
     <1>18 DEF Next, Task

\* The update starts well-typed.
LEMMA InitTyped == Init => TypeOK
<1> SUFFICES ASSUME Init
             PROVE  TypeOK
  OBVIOUS
<1>1. <<>> \in Seq(1..Size) /\ Len(<<>>) < Group
  BY OtaAssumption
<1>2. sent \in 0..Size /\ starts \in 0..MaxStarts /\ expired \in 0..MaxExpire /\ failed \in 0..MaxFail
  BY OtaAssumption, SizePositive DEF Init
<1>3. /\ partial \in [Thread -> Nat]
      /\ pc \in [Thread -> {"idle", "decode", "task", "write", "compare"}]
  BY DEF Init
<1> QED
  BY <1>1, <1>2, <1>3 DEF Init, TypeOK

\* The variables of the firmware update keep their types, whoever runs its state
\* machine, and the decoder never keeps a whole group back.
THEOREM TypeCorrect == Spec => []TypeOK
  BY InitTyped, TypeStep, PTL DEF Spec

-----------------------------------------------------------------------------
(* What was written, as long as one thread at a time is in the worker.     *)

\* A decoded packet that its thread has put under the MD5, and not yet in flash.
Pending == IF pc["mqtt"] \in {"task", "write"} THEN chunk ELSE <<>>

\* What was put under the MD5 is that text, or shorter: the timer wrote a packet again.
Agrees(text) == md5 = text \/ Len(md5) < Len(text)

\* While data comes, sum counts what is in flash, and the MD5 has nothing else.
DataInv ==
  /\ handles > 0 /\ sum = Len(flash)
  /\ md5 \in Seq(1..Size) /\ Agrees(flash \o Pending)
  /\ \A t \in Thread : pc[t] = "write" => partial[t] = sum

\* One thread at most is in the worker; a decoder is freed where no update runs; and
\* once an image is complete the digest is compared at once, and the MD5 spent.
AloneInv ==
  /\ ~undefined /\ boot # "vain"
  /\ pc["mqtt"] = "idle" \/ pc["timer"] = "idle"
  /\ decoder # "live" => state = "IDLE"
  /\ pc["timer"] # "decode"
  /\ pc["mqtt"] = "decode" => state \notin {"IDLE", "START"}
  /\ \A t \in Thread : pc[t] \in {"write", "compare"} => state = "DATA"
  /\ state = "START" => pc["mqtt"] = "task" /\ md5 = <<>> /\ sum = 0
  /\ state = "DATA" => DataInv
  /\ state = "FINISH" =>
       \/ md5 = Spent
       \/ /\ md5 \in Seq(1..Size) /\ Agrees(flash) /\ Len(flash) = Size
          /\ \E t \in Thread : pc[t] = "task"

Unspoiled == course # "spoiled" => AloneInv

\* A text of one character.
LEMMA ShortText ==
  ASSUME NEW S, NEW q \in Seq(S), Len(q) = 1
  PROVE  q[1] \in S
<1>1. q \in [1..Len(q) -> S]
  OBVIOUS
<1>2. 1 \in 1..Len(q)
  OBVIOUS
<1> QED
  BY <1>1, <1>2

\* A text is not what is left of the MD5 when it is finished, and the image is no
\* such rest either.
LEMMA SpentIsNoText ==
  /\ \A q \in Seq(1..Size) : q # Spent
  /\ Image \in Seq(1..Size) /\ Len(Image) = Size /\ Image # Spent
<1>1. ASSUME NEW q \in Seq(1..Size), Len(q) = 1
      PROVE  q[1] # 0
  BY <1>1, ShortText, SizePositive
<1>2. Image \in Seq(1..Size) /\ Len(Image) = Size
  BY SizePositive DEF Image
<1> QED
  BY <1>1, <1>2 DEF Spent

\* What agrees still does when a packet is appended to both, and when the text alone
\* grows.
LEMMA AgreesOn ==
  ASSUME NEW a \in Seq(1..Size), NEW b \in Seq(1..Size), NEW c \in Seq(1..Size),
         a = b \/ Len(a) < Len(b)
  PROVE  /\ a \o c = b \o c \/ Len(a \o c) < Len(b \o c)
         /\ c # <<>> => Len(a) < Len(b \o c)
<1>1. /\ Len(a) \in Nat /\ Len(b) \in Nat /\ Len(c) \in Nat
      /\ Len(a \o c) = Len(a) + Len(c) /\ Len(b \o c) = Len(b) + Len(c)
  OBVIOUS
<1>2. c # <<>> => Len(c) > 0
  OBVIOUS
<1> QED
  BY <1>1, <1>2

\* The thread that moves is the only one in the worker.
LEMMA Alone ==
  ASSUME TypeOK, AloneInv, NEW t \in Thread, pc[t] # "idle"
  PROVE  /\ \A u \in Thread \ {t} : pc[u] = "idle"
         /\ \A where : Go(t, where) => /\ pc' \in [Thread -> {where, "idle"}]
                                       /\ pc'[t] = where
                                       /\ \A u \in Thread \ {t} : pc'[u] = "idle"
<1>1. \A u \in Thread \ {t} : pc[u] = "idle"
  BY DEF AloneInv, Thread
<1>2. pc \in [Thread -> {"idle", "decode", "task", "write", "compare"}]
  BY DEF TypeOK
<1> QED
  BY <1>1, <1>2 DEF Go

\* While one thread at a time is in the worker and no flash operation fails, what is
\* put under the MD5 is what goes to flash, or is less.
LEMMA AloneStep == TypeOK /\ Unspoiled /\ [Next]_vars => Unspoiled'
<1> SUFFICES ASSUME TypeOK, Unspoiled, [Next]_vars, course' # "spoiled"
             PROVE  AloneInv'
  BY DEF Unspoiled
<1> USE DEF coder, job, written, threads, sender, counts
<1>0. /\ pc \in [Thread -> {"idle", "decode", "task", "write", "compare"}]
      /\ "mqtt" \in Thread /\ "timer" \in Thread /\ "mqtt" # "timer"
      /\ state \in {"IDLE", "START", "DATA", "FINISH", "ERROR"}
      /\ flash \in Seq(1..Size) /\ chunk \in Seq(1..Size) /\ handles \in Nat
      /\ sum \in Nat /\ partial \in [Thread -> Nat] /\ <<>> \in Seq(1..Size)
  BY DEF TypeOK, Thread
<1>1. ASSUME NEW right \in BOOLEAN, Start(right)
      PROVE  AloneInv'
  <2>1. pc["timer"] = "idle" /\ pc'["timer"] = "idle" /\ pc'["mqtt"] = "task"
    BY <1>0, <1>1 DEF Start, Go
  <2> QED
    BY <1>0, <1>1, <2>1 DEF Start, At, AloneInv, Thread
<1>2. ASSUME NEW n \in 1..Buffer, Packet(n)
      PROVE  AloneInv'
  <2>1. course # "spoiled" /\ pc["timer"] = "idle" /\ pc["mqtt"] = "idle"
    BY <1>0, <1>2 DEF Packet, At, Course
  <2>2. AloneInv
    BY <2>1 DEF Unspoiled
  <2>3. CASE decoder # "none" /\ state # "IDLE"
    <3>1. /\ pc'["mqtt"] = "decode" /\ pc'["timer"] = "idle"
          /\ UNCHANGED <<state, decoder, md5, sum, partial, flash, handles, boot, undefined>>
      BY <1>0, <1>2, <2>1, <2>3 DEF Packet, Go
    <3>2. state \in {"DATA", "FINISH", "ERROR"} /\ (state = "FINISH" => md5 = Spent)
      BY <1>0, <2>1, <2>2, <2>3 DEF AloneInv, Thread
    <3>3. Pending = <<>> /\ Pending' = <<>>
      BY <2>1, <3>1 DEF Pending
    <3>4. state = "DATA" => DataInv'
      BY <1>0, <2>2, <3>1, <3>3 DEF AloneInv, DataInv, Agrees, Thread
    <3> QED
      BY <1>0, <2>2, <3>1, <3>2, <3>4 DEF AloneInv, Thread
  <2>4. CASE ~(decoder # "none" /\ state # "IDLE")
    <3>1. UNCHANGED <<state, decoder, chunk, md5, sum, partial, flash, handles, boot, pc, undefined>>
      BY <1>2, <2>4 DEF Packet
    <3> QED
      BY <2>2, <3>1 DEF AloneInv, DataInv, Agrees, Pending
  <2> QED
    BY <2>3, <2>4
<1>3. CASE Expire
  <2>1. course # "spoiled" /\ pc["timer"] = "idle" /\ pc["mqtt"] = "idle"
    BY <1>0, <1>3 DEF Expire, At, Course
  <2>2. AloneInv
    BY <2>1 DEF Unspoiled
  <2>3. /\ pc'["timer"] = "task" /\ pc'["mqtt"] = "idle"
        /\ UNCHANGED <<state, decoder, md5, sum, partial, flash, handles, boot, undefined>>
    BY <1>0, <1>3, <2>1 DEF Expire, Go
  <2>4. state # "START" /\ (state = "FINISH" => md5 = Spent)
    BY <1>0, <2>1, <2>2 DEF AloneInv, Thread
  <2>5. Pending = <<>> /\ Pending' = <<>>
    BY <2>1, <2>3 DEF Pending
  <2>6. state = "DATA" => DataInv'
    BY <1>0, <2>2, <2>3, <2>5 DEF AloneInv, DataInv, Agrees, Thread
  <2> QED
    BY <1>0, <2>2, <2>3, <2>4, <2>6 DEF AloneInv, Thread
<1>4. CASE Decode
  <2>1. course # "spoiled" /\ pc["mqtt"] = "decode"
    BY <1>4 DEF Decode, At
  <2>2. AloneInv
    BY <2>1 DEF Unspoiled
  <2>3. /\ pc'["mqtt"] = "task" /\ pc'["timer"] = "idle" /\ pc["timer"] = "idle"
        /\ UNCHANGED <<state, decoder, sum, partial, flash, handles, boot, undefined>>
    BY <1>0, <1>4, <2>1, <2>2, Alone DEF Decode
  <2>4. state \in {"DATA", "FINISH", "ERROR"} /\ chunk' \in Seq(1..Size)
    BY <1>0, <1>4, <2>1, <2>2, DecoderTyped DEF Decode, AloneInv, TypeOK
  <2>5. ASSUME state = "DATA"
        PROVE  DataInv'
    <3>1. DataInv /\ Pending = <<>> /\ Pending' = chunk'
      BY <2>1, <2>2, <2>3, <2>5 DEF AloneInv, Pending
    <3>2. md5 \in Seq(1..Size) /\ md5' = md5 \o chunk' /\ flash \o Pending = flash
      BY <1>0, <1>4, <3>1, SpentIsNoText DEF Decode, DataInv
    <3>3. Agrees(flash \o Pending)'
      BY <1>0, <2>3, <2>4, <3>1, <3>2, AgreesOn DEF DataInv, Agrees
    <3> QED
      BY <1>0, <2>3, <2>4, <3>1, <3>2, <3>3 DEF DataInv, Thread
  <2>6. state = "FINISH" => md5' = Spent
    BY <1>0, <1>4, <2>1, <2>2, <2>3 DEF Decode, AloneInv, Thread
  <2> QED
    BY <2>2, <2>3, <2>4, <2>5, <2>6 DEF AloneInv, Thread
<1>5. ASSUME NEW t \in Thread, Task(t)
      PROVE  AloneInv'
  <2>1. course # "spoiled" /\ pc[t] \in {"decode", "task", "write", "compare"}
    BY <1>5 DEF Task, At, Idle, OtaStart, OtaData, Write, Compare, Reject, Install, GiveUp,
       UseFreed, Works, Fails
  <2>2. AloneInv
    BY <2>1 DEF Unspoiled
  <2>3. \A u \in Thread \ {t} : pc[u] = "idle"
    BY <2>1, <2>2, Alone
  <2>4. ASSUME NEW where, Go(t, where)
        PROVE  pc'[t] = where /\ \A u \in Thread \ {t} : pc'[u] = "idle"
    BY <2>1, <2>2, <2>4, Alone
  <2>5. CASE Idle(t)
    <3>1. /\ state = "IDLE" /\ pc'["mqtt"] = "idle" /\ pc'["timer"] = "idle"
          /\ UNCHANGED <<state, decoder, boot, undefined>>
      BY <2>4, <2>5 DEF Idle, Thread
    <3> QED
      BY <2>2, <3>1 DEF AloneInv, Thread
  <2>6. CASE OtaStart(t)
    <3>1. handles' = handles + 1 /\ flash' = <<>> /\ UNCHANGED decoder
      BY <2>6 DEF OtaStart, Fails
    <3>2. /\ pc'["mqtt"] = "idle" /\ pc'["timer"] = "idle" /\ state = "START"
          /\ UNCHANGED <<md5, sum, boot, undefined>> /\ state' = "DATA"
      BY <2>4, <2>6 DEF OtaStart, Thread
    <3>3. md5 = <<>> /\ sum = 0
      BY <2>2, <3>2 DEF AloneInv
    <3>4. DataInv'
      BY <1>0, <3>1, <3>2, <3>3 DEF DataInv, Agrees, Pending, Thread
    <3> QED
      BY <2>2, <3>1, <3>2, <3>4 DEF AloneInv, Thread
  <2>7. CASE OtaData(t)
    <3>1. /\ state = "DATA" /\ pc[t] = "task"
          /\ UNCHANGED <<decoder, chunk, md5, sum, flash, handles, boot, undefined>>
      BY <2>7 DEF OtaData, At
    <3>2. CASE chunk # <<>>
      <4>1. /\ partial' = [partial EXCEPT ![t] = sum] /\ pc'[t] = "write" /\ state' = state
            /\ \A u \in Thread \ {t} : pc'[u] = "idle"
        BY <2>4, <2>7, <3>2 DEF OtaData
      <4>2. Pending' = Pending
        BY <2>3, <3>1, <4>1 DEF Pending, Thread
      <4>3. DataInv'
        BY <1>0, <2>2, <3>1, <4>1, <4>2 DEF AloneInv, DataInv, Agrees
      <4> QED
        BY <2>2, <3>1, <4>1, <4>3 DEF AloneInv, Thread
    <3>3. CASE chunk = <<>>
      <4>1. pc'["mqtt"] = "idle" /\ pc'["timer"] = "idle" /\ state' = "ERROR"
        BY <2>4, <2>7, <3>3 DEF OtaData, Thread
      <4> QED
        BY <2>2, <3>1, <4>1 DEF AloneInv, Thread
    <3> QED
      BY <3>2, <3>3
  <2>8. CASE Write(t)
    <3>1. pc[t] = "write" /\ state = "DATA" /\ DataInv
      BY <2>2, <2>8 DEF Write, At, AloneInv
    <3>2. /\ flash' = flash \o chunk /\ sum' = partial[t] + Len(chunk)
          /\ UNCHANGED <<state, decoder, chunk, md5, handles, boot, undefined>>
      BY <1>0, <2>8, <3>1 DEF Write, DataInv, Fails
    <3>3. pc'[t] = "compare" /\ \A u \in Thread \ {t} : pc'[u] = "idle"
      BY <2>4, <2>8 DEF Write
    <3>4. partial[t] = Len(flash) /\ Len(flash \o chunk) = Len(flash) + Len(chunk)
      BY <1>0, <3>1 DEF DataInv
    <3>5. Agrees(flash \o Pending)'
      <4>1. Pending' = <<>> /\ flash' \o Pending' = flash \o chunk
        <5>1. Pending' = <<>>
          BY <3>3 DEF Pending, Thread
        <5>2. flash \o chunk \in Seq(1..Size)
          BY <1>0
        <5> QED
          BY <3>2, <5>1, <5>2
      <4>2. CASE t = "mqtt"
        <5>1. Pending = chunk
          BY <3>1, <4>2 DEF Pending
        <5>2. Agrees(flash \o chunk)
          BY <3>1, <5>1 DEF DataInv, Agrees
        <5> QED
          BY <3>2, <4>1, <5>2 DEF Agrees
      <4>3. CASE t = "timer"
        <5>1. flash \o Pending = flash
          BY <1>0, <2>3, <4>3 DEF Pending, Thread
        <5>2. chunk = <<>> \/ Len(md5) < Len(flash \o chunk)
          BY <1>0, <3>1, <5>1, AgreesOn DEF DataInv, Agrees
        <5> QED
          BY <1>0, <3>1, <3>2, <4>1, <5>1, <5>2 DEF DataInv, Agrees
      <4> QED
        BY <4>2, <4>3 DEF Thread
    <3>6. DataInv'
      BY <1>0, <3>1, <3>2, <3>3, <3>4, <3>5 DEF DataInv
    <3> QED
      BY <2>2, <3>1, <3>2, <3>3, <3>6 DEF AloneInv, Thread
  <2>9. CASE Compare(t)
    <3>1. /\ pc[t] = "compare" /\ state = "DATA" /\ DataInv
          /\ UNCHANGED <<decoder, chunk, md5, sum, partial, flash, handles, boot, undefined>>
      BY <2>2, <2>9 DEF Compare, At, AloneInv
    <3>2. Pending = <<>> /\ flash \o Pending = flash
      BY <1>0, <2>3, <3>1 DEF Pending, Thread
    <3>3. CASE sum = Size
      <4>1. state' = "FINISH" /\ pc'[t] = "task" /\ \A u \in Thread \ {t} : pc'[u] = "idle"
        BY <2>4, <2>9, <3>3 DEF Compare
      <4> QED
        <5>1. md5 \in Seq(1..Size) /\ Agrees(flash) /\ Len(flash) = Size
          BY <3>1, <3>2, <3>3 DEF DataInv
        <5>2. Agrees(flash)' /\ md5' \in Seq(1..Size) /\ Len(flash') = Size
          BY <3>1, <5>1 DEF Agrees
        <5> QED
          BY <2>2, <3>1, <4>1, <5>2 DEF AloneInv, Thread
    <3>4. CASE sum # Size
      <4>1. state' = "DATA" /\ pc'["mqtt"] = "idle" /\ pc'["timer"] = "idle"
        BY <2>4, <2>9, <3>1, <3>4 DEF Compare, Thread
      <4>2. Pending' = <<>>
        BY <4>1 DEF Pending
      <4>3. DataInv'
        BY <1>0, <3>1, <3>2, <4>1, <4>2 DEF DataInv, Agrees, Thread
      <4> QED
        BY <2>2, <3>1, <4>1, <4>3 DEF AloneInv, Thread
    <3> QED
      BY <3>3, <3>4
  <2>10. CASE Reject(t)
    <3>1. /\ state = "FINISH" /\ md5' = Spent /\ pc'["mqtt"] = "idle" /\ pc'["timer"] = "idle"
          /\ UNCHANGED <<state, decoder, boot, undefined>>
      BY <2>4, <2>10 DEF Reject, Thread
    <3> QED
      BY <2>2, <3>1 DEF AloneInv, Thread
  <2>11. CASE Install(t)
    <3>1. md5 = Image /\ state = "FINISH"
      BY <2>11 DEF Install, Matches
    <3>2. flash = Image
      BY <2>2, <3>1, SpentIsNoText, SizePositive DEF AloneInv, Agrees
    <3>3. /\ boot' = "intended" /\ state' = "IDLE" /\ UNCHANGED undefined
          /\ pc' = [u \in Thread |-> "idle"]
      BY <2>11, <3>2 DEF Install
    <3> QED
      BY <1>0, <2>2, <3>3 DEF AloneInv
  <2>12. CASE GiveUp(t)
    <3>1. /\ state' = "IDLE" /\ pc'["mqtt"] = "idle" /\ pc'["timer"] = "idle"
          /\ UNCHANGED <<boot, undefined>>
      BY <2>4, <2>12 DEF GiveUp, Thread
    <3> QED
      BY <2>2, <3>1 DEF AloneInv, Thread
  <2>13. ~UseFreed(t)
    BY <2>2 DEF UseFreed, At, AloneInv, Thread
  <2> QED
    BY <1>5, <2>5, <2>6, <2>7, <2>8, <2>9, <2>10, <2>11, <2>12, <2>13 DEF Task
<1>6. CASE UNCHANGED vars
  BY <1>6 DEF vars, Unspoiled, AloneInv, DataInv, Agrees, Pending
<1> QED
  BY <1>1, <1>2, <1>3, <1>4, <1>5, <1>6 DEF Next

\* Of one thread at a time in the worker, and without a flash error, what passes the
\* digest check is what was written, however often the timer wrote a packet again and
\* whatever became of the announcements before; and no freed decoder is used.
THEOREM NoUpdateInVain == Spec => []NotInVain
<1>1. Init => Unspoiled
  BY DEF Init, Unspoiled, AloneInv, Thread
<1>2. Unspoiled => NotInVain
  BY DEF Unspoiled, AloneInv, NotInVain
<1> QED
  BY <1>1, <1>2, InitTyped, TypeStep, AloneStep, PTL DEF Spec
=============================================================================
