--------------------------------- MODULE Ota ---------------------------------
(***************************************************************************)
(* The firmware update (main/otaWorker.cpp) as MqttOtaHandler drives it    *)
(* (main/otaHandler.cpp).  The MQTT task announces an update, start(), and *)
(* hands over its base-85 text in packets, handle(); the timer task calls  *)
(* task() when ten seconds pass without data.  Neither takes a lock, and   *)
(* both run the same state machine.                                        *)
(*                                                                         *)
(* A character of the text stands for the bytes it carries: decoded data,  *)
(* the data under the MD5 and the data in flash are sequences of character *)
(* positions, so the image is 1..Size in order.                            *)
(*                                                                         *)
(* DecoderTight, CarryWhole and WriteTwice are no part of the              *)
(* specification: each is a slip in the definition that follows it, and    *)
(* breaks a property below.                                                *)
(***************************************************************************)
EXTENDS Integers, Sequences

CONSTANTS
  Group,      \* characters that are decoded together (5)
  Groups,     \* groups of the image
  Buffer,     \* CONFIG_MQTT_BUFFER_SIZE: the longest packet
  MaxStarts,  \* bound: announcements
  MaxExpire,  \* bound: expiries of the ten-second timer
  MaxFail     \* bound: flash operations that fail

ASSUME OtaAssumption ==
  /\ Group \in Nat \ {0} /\ Groups \in Nat \ {0} /\ Buffer \in Nat \ {0}
  /\ MaxStarts \in Nat /\ MaxExpire \in Nat /\ MaxFail \in Nat

Size == Group * Groups

Image == [k \in 1..Size |-> k]

\* The MD5 context after mbedtls_md5_finish(): no image has a character 0.
Spent == <<0>>

Thread == {"mqtt", "timer"}

VARIABLES
  state,     \* m_ota_state
  decoder,   \* m_decodeCtx: "none", "live", or "freed" and not cleared
  carry,     \* characters the decoder keeps for the next packet
  chunk,     \* what the last packet decoded to: decoded, of length _len
  md5,       \* what the MD5 was computed over, or Spent once finished
  sum,       \* sum
  intended,  \* m_md5Updata: the announced digest is that of the image sent
  armed,     \* the ten-second timer runs
  flash,     \* what was written through the open handle
  handles,   \* handles that esp_ota_begin() gave and esp_ota_end() did not take
  boot,      \* what a restart has booted since the last announcement: the "intended"
             \* image, or in spite of the update the old one ("vain"); "none" so far
  pc,        \* where each thread is in the worker
  packet,    \* the packet in hand
  partial,   \* each thread's copy of sum while it adds to it
  undefined, \* the freed decoder was used
  sent,      \* characters of the image sent since the last announcement
  course,    \* since then: "spoiled" if a flash operation failed or both threads were
             \* in the worker, "stalled" if ten seconds passed without data or a packet
             \* completed no group, or else "smooth"
  starts, expired, failed   \* counts of what disturbs an update (bounds)

coder == <<decoder, carry, chunk, md5>>
job == <<state, sum, armed, partial>>
written == <<flash, handles, boot>>
threads == <<pc, packet, undefined>>
sender == <<intended, sent, course>>
counts == <<starts, expired, failed>>
vars == <<coder, job, written, threads, sender, counts>>

Init ==
  /\ state = "IDLE" /\ decoder = "none"
  /\ carry = <<>> /\ chunk = <<>> /\ md5 = <<>>
  /\ sum = 0 /\ armed = FALSE /\ partial = [t \in Thread |-> 0]
  /\ flash = <<>> /\ handles = 0 /\ boot = "none"
  /\ pc = [t \in Thread |-> "idle"] /\ packet = <<>> /\ undefined = FALSE
  /\ intended = FALSE /\ sent = 0 /\ course = "smooth"
  /\ starts = 0 /\ expired = 0 /\ failed = 0

At(t, where) == pc[t] = where /\ ~undefined

Go(t, where) == pc' = [pc EXCEPT ![t] = where]

\* The course of an update only becomes worse.
Course(t, stalls) ==
  IF course = "spoiled" \/ \E u \in Thread \ {t} : pc[u] # "idle" THEN "spoiled"
  ELSE IF stalls THEN "stalled" ELSE course

-----------------------------------------------------------------------------
(* The MQTT task and the timer call the worker.                            *)

\* start(): a decoder that is still there is leaked, and a full queue of the timer
\* drops m_timeout.start(1).
Start(right) ==
  /\ At("mqtt", "idle")
  /\ starts < MaxStarts
  /\ starts' = starts + 1
  /\ decoder' = "live" /\ carry' = <<>> /\ chunk' = <<>> /\ md5' = <<>>
  /\ state' = "START" /\ sum' = 0 /\ (armed' = TRUE \/ UNCHANGED armed)
  /\ intended' = right /\ sent' = 0 /\ boot' = "none"
  /\ course' = IF pc["timer"] = "idle" THEN "smooth" ELSE "spoiled"
  /\ Go("mqtt", "task")
  /\ UNCHANGED <<partial, flash, handles, packet, undefined, expired, failed>>

\* handle(): a packet that comes when no update runs is ignored; decode() begins
\* with _len = 0, which the timer's thread can see.
Packet(n) ==
  /\ At("mqtt", "idle")
  /\ starts > 0
  /\ sent + n <= Size
  /\ sent' = sent + n
  /\ course' = Course("mqtt", sent' \div Group = sent \div Group)
  /\ IF decoder # "none" /\ state # "IDLE"
     THEN packet' = [k \in 1..n |-> sent + k] /\ chunk' = <<>> /\ Go("mqtt", "decode")
     ELSE UNCHANGED <<packet, chunk, pc>>
  /\ UNCHANGED <<decoder, carry, md5, job, written, undefined, intended, counts>>

Expire ==
  /\ At("timer", "idle")
  /\ armed
  /\ expired < MaxExpire
  /\ expired' = expired + 1
  /\ armed' = FALSE
  /\ course' = Course("timer", TRUE)
  /\ Go("timer", "task")
  /\ UNCHANGED <<coder, state, sum, partial, written, packet, undefined, intended, sent>>
  /\ UNCHANGED <<starts, failed>>

\* What a use of the freed decoder leads to is not followed any further.
UseFreed(t) ==
  /\ decoder = "freed"
  /\ \/ At(t, "decode")
     \/ At(t, "task") /\ state \in {"DATA", "ERROR"}
     \/ At(t, "write")
  /\ undefined' = TRUE
  /\ UNCHANGED <<coder, job, written, pc, packet, sender, counts>>

-----------------------------------------------------------------------------
(* B85decode::decode() and the MD5.                                        *)

CarryWhole(text, had) ==
  LET all == had \o text
      whole == (Len(all) \div Group) * Group
  IN  IF Len(text) < Buffer + Group - Len(had)
      THEN [chunk |-> SubSeq(all, 1, whole), carry |-> all]
      ELSE [chunk |-> <<>>, carry |-> had]

DecoderTight(text, had) ==
  LET all == had \o text
      whole == (Len(all) \div Group) * Group
  IN  IF Len(text) < Buffer - Len(had)
      THEN [chunk |-> SubSeq(all, 1, whole), carry |-> SubSeq(all, whole + 1, Len(all))]
      ELSE [chunk |-> <<>>, carry |-> had]

\* Whole groups are decoded and the rest kept; a packet for which the buffer of
\* Buffer + Group characters has no room left is dropped.
Decoder(text, had) ==
  LET all == had \o text
      whole == (Len(all) \div Group) * Group
  IN  IF Len(text) < Buffer + Group - Len(had)
      THEN [chunk |-> SubSeq(all, 1, whole), carry |-> SubSeq(all, whole + 1, Len(all))]
      ELSE [chunk |-> <<>>, carry |-> had]

Decode ==
  /\ At("mqtt", "decode")
  /\ decoder = "live"
  /\ chunk' = Decoder(packet, carry).chunk
  /\ carry' = Decoder(packet, carry).carry
  /\ md5' = IF md5 = Spent THEN md5 ELSE md5 \o chunk'
  /\ packet' = <<>>
  /\ Go("mqtt", "task")
  /\ UNCHANGED <<decoder, job, written, undefined, sender, counts>>

-----------------------------------------------------------------------------
(* task(), in either thread.                                               *)

Idle(t) ==
  /\ At(t, "task")
  /\ state = "IDLE"
  /\ Go(t, "idle")
  /\ UNCHANGED <<coder, job, written, packet, undefined, sender, counts>>

\* An operation on the flash works, or fails now and then.
Works == UNCHANGED <<failed, course>>

Fails == failed < MaxFail /\ failed' = failed + 1 /\ course' = "spoiled"

\* otaStart(): the failure of esp_ota_begin() does not end the update.
OtaStart(t) ==
  /\ At(t, "task")
  /\ state = "START"
  /\ \/ Works /\ handles' = handles + 1 /\ flash' = <<>> /\ UNCHANGED decoder
     \/ Fails /\ decoder' = "freed" /\ UNCHANGED <<handles, flash>>
  /\ state' = "DATA"
  /\ Go(t, "idle")
  /\ UNCHANGED <<carry, chunk, md5, sum, armed, partial, boot, packet, undefined,
                 intended, sent, starts, expired>>

\* otaData(): the timer starts again; without decoded data the update is given up.
OtaData(t) ==
  /\ At(t, "task")
  /\ state = "DATA"
  /\ decoder = "live"
  /\ armed' = TRUE
  /\ IF chunk # <<>>
     THEN partial' = [partial EXCEPT ![t] = sum] /\ Go(t, "write") /\ UNCHANGED state
     ELSE state' = "ERROR" /\ Go(t, "idle") /\ UNCHANGED partial
  /\ UNCHANGED <<coder, sum, written, packet, undefined, sender, counts>>

WriteTwice(t) ==
  /\ At(t, "write")
  /\ decoder = "live"
  /\ sum' = partial[t] + Len(chunk)
  /\ \/ Works /\ handles > 0 /\ flash' = flash \o chunk \o chunk /\ UNCHANGED decoder
     \/ (Fails \/ (Works /\ handles = 0)) /\ decoder' = "freed" /\ UNCHANGED flash
  /\ Go(t, "compare")
  /\ UNCHANGED <<carry, chunk, md5, state, armed, partial, handles, boot, packet, undefined,
                 intended, sent, starts, expired>>

\* The rest of sum += len, and esp_ota_write(), which needs an open handle.
Write(t) ==
  /\ At(t, "write")
  /\ decoder = "live"
  /\ sum' = partial[t] + Len(chunk)
  /\ \/ Works /\ handles > 0 /\ flash' = flash \o chunk /\ UNCHANGED decoder
     \/ (Fails \/ (Works /\ handles = 0)) /\ decoder' = "freed" /\ UNCHANGED flash
  /\ Go(t, "compare")
  /\ UNCHANGED <<carry, chunk, md5, state, armed, partial, handles, boot, packet, undefined,
                 intended, sent, starts, expired>>

Compare(t) ==
  /\ At(t, "compare")
  /\ state' = IF sum = Size THEN "FINISH" ELSE state
  /\ Go(t, IF sum = Size THEN "task" ELSE "idle")
  /\ UNCHANGED <<coder, sum, armed, partial, written, packet, undefined, sender, counts>>

Matches == md5 = Image /\ intended

\* otaFinish(), the digest is wrong: logged, and nothing else.
Reject(t) ==
  /\ At(t, "task")
  /\ state = "FINISH"
  /\ ~Matches
  /\ md5' = Spent
  /\ Go(t, "idle")
  /\ UNCHANGED <<decoder, carry, chunk, job, written, packet, undefined, sender, counts>>

\* otaFinish(), the digest is right.  What esp_ota_end() and
\* esp_ota_set_boot_partition() return is only logged and the device restarts;
\* the latter refuses a partition that does not hold a whole image.  A decoder
\* freed before is deleted again just before the restart, which changes nothing.
Install(t) ==
  /\ At(t, "task")
  /\ state = "FINISH"
  /\ Matches
  /\ boot' = IF flash = Image THEN "intended" ELSE "vain"
  /\ state' = "IDLE" /\ decoder' = "none"
  /\ carry' = <<>> /\ chunk' = <<>> /\ md5' = <<>>
  /\ sum' = 0 /\ armed' = FALSE /\ partial' = [u \in Thread |-> 0]
  /\ handles' = 0
  /\ pc' = [u \in Thread |-> "idle"] /\ packet' = <<>>
  /\ UNCHANGED <<flash, undefined, sender, counts>>

\* The update is given up with the next call: the decoder is freed, not cleared.
GiveUp(t) ==
  /\ At(t, "task")
  /\ state = "ERROR"
  /\ decoder = "live"
  /\ decoder' = "freed"
  /\ state' = "IDLE"
  /\ Go(t, "idle")
  /\ UNCHANGED <<carry, chunk, md5, sum, armed, partial, written, packet, undefined, sender,
                 counts>>

Task(t) ==
  \/ Idle(t) \/ OtaStart(t) \/ OtaData(t) \/ Write(t) \/ Compare(t)
  \/ Reject(t) \/ Install(t) \/ GiveUp(t) \/ UseFreed(t)

Next ==
  \/ \E right \in BOOLEAN : Start(right)
  \/ \E n \in 1..Buffer : Packet(n)
  \/ Expire
  \/ Decode
  \/ \E t \in Thread : Task(t)

Spec == Init /\ [][Next]_vars

\* Both threads run on, and the sender goes on sending.
FairSpec ==
  /\ Spec
  /\ WF_vars(Decode)
  /\ \A t \in Thread : WF_vars(Task(t))
  /\ WF_vars(\E n \in 1..Buffer : Packet(n))

-----------------------------------------------------------------------------
(* Properties.                                                             *)

\* Every variable keeps its type; the decoder never keeps a whole group back.
TypeOK ==
  /\ state \in {"IDLE", "START", "DATA", "FINISH", "ERROR"}
  /\ decoder \in {"none", "live", "freed"}
  /\ carry \in Seq(1..Size) /\ Len(carry) < Group
  /\ chunk \in Seq(1..Size)
  /\ md5 \in Seq(1..Size) \cup {Spent}
  /\ sum \in Nat
  /\ armed \in BOOLEAN
  /\ partial \in [Thread -> Nat]
  /\ flash \in Seq(1..Size)
  /\ handles \in Nat
  /\ boot \in {"none", "intended", "vain"}
  /\ pc \in [Thread -> {"idle", "decode", "task", "write", "compare"}]
  /\ packet \in Seq(1..Size)
  /\ undefined \in BOOLEAN
  /\ intended \in BOOLEAN /\ sent \in 0..Size
  /\ course \in {"smooth", "stalled", "spoiled"}
  /\ starts \in 0..MaxStarts /\ expired \in 0..MaxExpire /\ failed \in 0..MaxFail

\* A decoded packet that the timer writes a second time, a packet that got lost and
\* whatever else went wrong before: as long as since the announcement no flash
\* operation failed and the two threads were never in the worker at once, what passes
\* the digest check is what was written, so that the restart boots it; and an update
\* that was given up leaves no freed decoder to be used.
NotInVain == course # "spoiled" => boot # "vain" /\ ~undefined

\* "update handle : set by esp_ota_begin(), must be freed via esp_ota_end()"
\* (main/otaWorker.h:81): no second handle is taken while one is open.
HandleFreed == handles <= 1

\* However the sender cuts the text into packets, an update with the right digest is
\* installed, unless it is disturbed, or announced again; a repeated announcement
\* starts afresh, whatever became of those before: given up, rejected or spoiled.
Installs ==
  \A n \in 1..MaxStarts :
    LET disturbed == course # "smooth" \/ starts # n
    IN intended /\ ~disturbed ~> boot = "intended" \/ disturbed
=============================================================================
