-------------------------- MODULE ConfigStoreProofs --------------------------
(***************************************************************************)
(* ConfigStore, for every number of threads, keys, changes, power failures *)
(* and failed writes: the variables keep their types, what is at rest is   *)
(* in flash, a start brings back what was at rest, and a reset is final.   *)
(***************************************************************************)
EXTENDS ConfigStore, TLAPS

-----------------------------------------------------------------------------
(* Type correctness.                                                       *)

\* The bounds are numbers, and key 0 and the first version exist.
LEMMA Bounds ==
  /\ MaxKeys \in Nat /\ MaxVersions \in Nat /\ MaxCrashes \in Nat /\ MaxFails \in Nat
  /\ 0 \in Key /\ 0 \in 0..MaxVersions
  /\ \A k \in Key : k < MaxKeys => k + 1 \in Key
  /\ \A v \in 0..MaxVersions : v < MaxVersions => v + 1 \in 0..MaxVersions
<1>1. MaxKeys \in Nat /\ MaxVersions \in Nat /\ MaxCrashes \in Nat /\ MaxFails \in Nat
  BY ConfigAssumption
<1> QED
  BY <1>1 DEF Key

\* Settings and files are built from the types of their parts.
LEMMA Built ==
  /\ Defaults \in Settings
  /\ \A v \in 0..MaxVersions, p \in Key \cup {Plain} : [ver |-> v, pass |-> p] \in Settings
  /\ \A s \in Settings : /\ s.ver \in 0..MaxVersions /\ s.pass \in Key \cup {Plain}
                         /\ Whole(s) \in File
  /\ \A how \in {"absent", "empty", "partial", "whole"} : Broken(how) \in File
  /\ \A f \in File : f.s \in Settings /\ (f.is = "whole" => f = Whole(f.s))
<1>1. Defaults \in Settings
  BY Bounds DEF Defaults, Settings
<1> QED
  BY <1>1 DEF Settings, File, Whole, Broken

\* A write leaves the files well-typed.
LEMMA WriteTyped ==
  ASSUME TypeOK, NEW from, NEW to \in {"idle", "open", "stringify", "write", "close"},
         NEW content \in File, WriteStep(from, to, content)
  PROVE  /\ file' \in [Key -> File] /\ writer' \in {"idle", "open", "stringify", "write", "close"}
         /\ UNCHANGED <<nvs, boot, key, keyReset, settings, armed, user, erasing>>
  BY DEF TypeOK, WriteStep, FileName

\* A restart leaves well-typed what it changes.
LEMMA RestartTyped ==
  ASSUME TypeOK, Restart
  PROVE  /\ boot' = "key" /\ key' \in Key /\ keyReset' = FALSE
         /\ settings' \in Settings /\ text' \in Settings
         /\ armed' = FALSE /\ erasing' = FALSE /\ writer' = "idle"
         /\ user' \in [Users -> {"idle", "notify"}] /\ torn' \subseteq Key
         /\ dropped' = FALSE
  BY Bounds, Built DEF TypeOK, Restart, FileName

\* The start of the timer leaves well-typed what it changes.
LEMMA StartTyped ==
  ASSUME TypeOK, Start
  PROVE  armed' \in BOOLEAN /\ dropped' \in BOOLEAN /\ fails' \in 0..MaxFails
<1>1. CASE armed' = TRUE /\ dropped' = FALSE /\ UNCHANGED fails
  BY <1>1 DEF TypeOK
<1>2. CASE /\ fails < MaxFails /\ fails' = fails + 1
           /\ dropped' = (dropped \/ ~armed) /\ UNCHANGED armed
  <2>1. fails' \in 0..MaxFails
    BY <1>2, Bounds DEF TypeOK
  <2>2. dropped' \in BOOLEAN
    BY <1>2
  <2> QED
    BY <1>2, <2>1, <2>2 DEF TypeOK
<1> QED
  BY <1>1, <1>2 DEF Start

\* Every step leaves the variables well-typed.
LEMMA TypeStep == TypeOK /\ [Next]_vars => TypeOK'
<1> SUFFICES ASSUME TypeOK, [Next]_vars
             PROVE  TypeOK'
  OBVIOUS
<1> USE DEF flash, counters, ghosts
<1>1. CASE ReadKey
  <2>1. key' \in Key /\ keys' \in Key
    BY <1>1, Bounds DEF ReadKey, TypeOK
  <2> QED
    BY <1>1, <2>1 DEF ReadKey, TypeOK
<1>2. CASE GenKey
  <2>1. key' \in Key /\ keys' \in Key /\ keyReset' \in BOOLEAN
    BY <1>2, Bounds DEF GenKey, TypeOK
  <2>2. nvs' \in [id : Key, whole : BOOLEAN]
    <3>1. CASE keys < MaxKeys /\ \E whole \in BOOLEAN : nvs' = [id |-> keys + 1, whole |-> whole]
      <4>1. keys + 1 \in Key
        BY <3>1, Bounds DEF TypeOK
      <4> QED
        BY <3>1, <4>1
    <3> QED
      BY <1>2, <3>1 DEF GenKey, TypeOK
  <2> QED
    BY <1>2, <2>1, <2>2 DEF GenKey, TypeOK
<1>3. CASE Load
  <2>1. file[FileName(key)].s \in Settings
    BY Built DEF TypeOK, FileName
  <2>2. settings' \in Settings
    BY <1>3, <2>1, Built DEF Load, Loads
  <2>3. (keyReset \/ Unreadable) \in BOOLEAN
    BY DEF TypeOK, Unreadable
  <2>4. /\ keyReset' \in BOOLEAN /\ boot' \in {"defaults", "hooks"}
        /\ writer' \in {"open", writer}
    BY <1>3, <2>3 DEF Load, Loads
  <2> QED
    BY <1>3, <2>2, <2>4 DEF Load, Loads, TypeOK
<1>4. CASE Hooks
  <2>1. settings' \in Settings
    BY <1>4, Built DEF Hooks, TypeOK, Settings
  <2>2. armed' \in BOOLEAN /\ dropped' \in BOOLEAN /\ fails' \in 0..MaxFails
    BY <1>4, StartTyped DEF Hooks, TypeOK
  <2> QED
    BY <1>4, <2>1, <2>2 DEF Hooks, TypeOK
<1>5. ASSUME NEW u \in Users, NEW password \in BOOLEAN, Change(u, password)
      PROVE  TypeOK'
  <2>1. versions' \in 0..MaxVersions /\ versions' = versions + 1
    BY <1>5, Bounds DEF Change, TypeOK
  <2>2. settings' \in Settings
    BY <1>5, <2>1, Built DEF Change, TypeOK
  <2>3. user' \in [Users -> {"idle", "notify"}]
    BY <1>5 DEF Change, TypeOK
  <2>4. kept' \in [known : BOOLEAN, s : Settings]
    BY <1>5, Built DEF Change, Unknown
  <2> QED
    BY <1>5, <2>1, <2>2, <2>3, <2>4 DEF Change, TypeOK
<1>6. ASSUME NEW u \in Users, Notify(u)
      PROVE  TypeOK'
  BY <1>6, StartTyped DEF Notify, TypeOK
<1>7. CASE Fire
  BY <1>7 DEF Fire, TypeOK
<1>8. CASE Truncate
  <2>1. Broken("empty") \in File
    BY Built
  <2> QED
    BY <1>8, <2>1, WriteTyped DEF Truncate, TypeOK
<1>9. CASE Stringify
  <2>1. Broken("empty") \in File
    BY Built
  <2> QED
    BY <1>9, <2>1, WriteTyped DEF Stringify, TypeOK
<1>10. CASE Flush
  <2>1. Broken("partial") \in File
    BY Built
  <2> QED
    BY <1>10, <2>1, WriteTyped DEF Flush, TypeOK
<1>11. CASE Close
  <2>1. Whole(text) \in File
    BY Built DEF TypeOK
  <2> QED
    BY <1>11, <2>1, WriteTyped, Built DEF Close, TypeOK
<1>12. CASE WriteFails
  <2>1. fails' \in 0..MaxFails
    BY <1>12, Bounds DEF WriteFails, TypeOK
  <2> QED
    BY <1>12, <2>1, Built DEF WriteFails, TypeOK, FileName
<1>13. CASE Crash
  <2>1. crashes' \in 0..MaxCrashes
    BY <1>13, Bounds DEF Crash, TypeOK
  <2>2. kept' \in [known : BOOLEAN, s : Settings]
    <3>1. CASE boot # "run"
      BY <1>13, <3>1 DEF Crash, TypeOK
    <3>2. CASE boot = "run"
      <4>1. \E known \in BOOLEAN : kept' = [known |-> known, s |-> settings]
        BY <1>13, <3>2, Zenon DEF Crash
      <4> QED
        BY <4>1 DEF TypeOK
    <3> QED
      BY <3>1, <3>2
  <2> QED
    BY <1>13, <2>1, <2>2, RestartTyped DEF Crash, TypeOK
<1>14. CASE EraseKey
  <2>1. nvs' \in [id : Key, whole : BOOLEAN]
    BY <1>14, Bounds DEF EraseKey
  <2> QED
    BY <1>14, <2>1 DEF EraseKey, TypeOK
<1>15. CASE RestartErased
  <2>1. kept' \in [known : BOOLEAN, s : Settings]
    BY <1>15, Built DEF RestartErased, Unknown
  <2> QED
    BY <1>15, <2>1, RestartTyped DEF RestartErased, TypeOK
<1>16. CASE UNCHANGED vars
  BY <1>16 DEF vars, ram, TypeOK
<1> QED
  BY <1>1, <1>2, <1>3, <1>4, <1>5, <1>6, <1>7, <1>8, <1>9, <1>10, <1>11, <1>12, <1>13,
     <1>14, <1>15, <1>16 DEF Next, Main, Write

\* The device starts well-typed.
LEMMA InitTyped == Init => TypeOK
<1> SUFFICES ASSUME Init
             PROVE  TypeOK
  OBVIOUS
<1>1. /\ 0 \in 0..MaxCrashes /\ 0 \in 0..MaxFails /\ TRUE \in BOOLEAN
      /\ Broken("absent") \in File /\ Unknown \in [known : BOOLEAN, s : Settings]
  BY Bounds, Built DEF Unknown
<1>2. /\ nvs \in [id : Key, whole : BOOLEAN] /\ file \in [Key -> File]
      /\ user \in [Users -> {"idle", "notify"}] /\ kept \in [known : BOOLEAN, s : Settings]
  BY <1>1, Bounds DEF Init
<1> QED
  BY <1>1, <1>2, Bounds, Built DEF Init, TypeOK

\* The variables of the configuration store keep their types, whatever fails.
THEOREM TypeCorrect == Spec => []TypeOK
<1>1. Init => TypeOK
  BY InitTyped
<1> QED
  BY <1>1, TypeStep, PTL DEF Spec

-----------------------------------------------------------------------------
(* What is at rest is in flash.                                            *)

NoneWaits == \A u \in Users : user[u] = "idle"

\* Until the network is up nobody changes a setting, and until the settings are
\* loaded there are none but the defaults.
BootInv ==
  /\ boot # "run" => ~armed /\ NoneWaits /\ ~erasing
  /\ dropped => boot = "run" /\ writer = "idle" /\ ~armed
  /\ boot \in {"key", "load", "hooks"} => writer = "idle"
  /\ boot \in {"key", "load"} => settings = Defaults /\ text = Defaults
  /\ boot = "key" => key = 0 /\ ~keyReset
  /\ boot = "defaults" => keyReset
  /\ boot = "hooks" => ~keyReset
  /\ writer = "idle" => text = Defaults

\* A file that is empty or cut off is being written, or its last write was cut short.
CutInv ==
  \A n \in Key :
    file[n].is \in {"empty", "partial"} =>
      n \in torn \/ (n = key /\ writer \in {"stringify", "write", "close"})

\* The settings are in the file, or in the text that goes there; or a write was cut
\* short, or the start of the timer dropped, or another write will follow.
SavedInv ==
  LET inFile == key \in torn \/ file[key] = Whole(settings)
  IN /\ boot = "hooks" => inFile
     /\ boot = "run" /\ NoneWaits =>
          /\ writer \in {"write", "close"} => text = settings
          /\ writer = "idle" /\ ~armed /\ ~dropped => inFile

\* What is known of the start is kept by every step.
LEMMA BootStep == TypeOK /\ BootInv /\ [Next]_vars => BootInv'
<1> SUFFICES ASSUME TypeOK, BootInv, [Next]_vars
             PROVE  BootInv'
  OBVIOUS
<1> USE DEF flash, counters, ghosts
<1>1. CASE ReadKey
  BY <1>1 DEF ReadKey, TypeOK, BootInv, NoneWaits
<1>2. CASE GenKey
  BY <1>2 DEF GenKey, TypeOK, BootInv, NoneWaits
<1>3. CASE Load
  BY <1>3 DEF Load, Loads, Unreadable, TypeOK, BootInv, NoneWaits
<1>4. CASE Hooks
  BY <1>4 DEF Hooks, Start, TypeOK, BootInv, NoneWaits
<1>5. ASSUME NEW u \in Users, NEW password \in BOOLEAN, Change(u, password)
      PROVE  BootInv'
  BY <1>5 DEF Change, TypeOK, BootInv, NoneWaits
<1>6. ASSUME NEW u \in Users, Notify(u)
      PROVE  BootInv'
  BY <1>6 DEF Notify, Start, TypeOK, BootInv, NoneWaits
<1>7. CASE Fire
  BY <1>7 DEF Fire, TypeOK, BootInv, NoneWaits
<1>8. CASE Truncate
  BY <1>8 DEF Truncate, WriteStep, TypeOK, BootInv, NoneWaits
<1>9. CASE Stringify
  BY <1>9 DEF Stringify, WriteStep, TypeOK, BootInv, NoneWaits
<1>10. CASE Flush
  BY <1>10 DEF Flush, WriteStep, TypeOK, BootInv, NoneWaits
<1>11. CASE Close
  BY <1>11 DEF Close, WriteStep, TypeOK, BootInv, NoneWaits
<1>12. CASE WriteFails
  BY <1>12 DEF WriteFails, TypeOK, BootInv, NoneWaits
<1>13. CASE Crash
  BY <1>13 DEF Crash, Restart, TypeOK, BootInv, NoneWaits
<1>14. CASE EraseKey
  BY <1>14 DEF EraseKey, TypeOK, BootInv, NoneWaits
<1>15. CASE RestartErased
  BY <1>15 DEF RestartErased, Restart, TypeOK, BootInv, NoneWaits
<1>16. CASE UNCHANGED vars
  BY <1>16 DEF vars, ram, TypeOK, BootInv, NoneWaits
<1> QED
  BY <1>1, <1>2, <1>3, <1>4, <1>5, <1>6, <1>7, <1>8, <1>9, <1>10, <1>11, <1>12, <1>13,
     <1>14, <1>15, <1>16 DEF Next, Main, Write

\* No step forgets a write that was cut short.
LEMMA CutStep == TypeOK /\ BootInv /\ CutInv /\ [Next]_vars => CutInv'
<1> SUFFICES ASSUME TypeOK, BootInv, CutInv, [Next]_vars
             PROVE  CutInv'
  OBVIOUS
<1> USE DEF flash, counters, ghosts
<1>1. CASE ReadKey
  BY <1>1 DEF ReadKey, TypeOK, BootInv, CutInv, FileName, Broken, Whole
<1>2. CASE GenKey
  BY <1>2 DEF GenKey, TypeOK, BootInv, CutInv, FileName, Broken, Whole
<1>3. CASE Load
  BY <1>3 DEF Load, Loads, Unreadable, TypeOK, BootInv, CutInv, FileName, Broken, Whole
<1>4. CASE Hooks
  BY <1>4 DEF Hooks, Start, TypeOK, BootInv, CutInv, FileName, Broken, Whole
<1>5. ASSUME NEW u \in Users, NEW password \in BOOLEAN, Change(u, password)
      PROVE  CutInv'
  BY <1>5 DEF Change, TypeOK, BootInv, CutInv, FileName, Broken, Whole
<1>6. ASSUME NEW u \in Users, Notify(u)
      PROVE  CutInv'
  BY <1>6 DEF Notify, Start, TypeOK, BootInv, CutInv, FileName, Broken, Whole
<1>7. CASE Fire
  BY <1>7 DEF Fire, TypeOK, BootInv, CutInv, FileName, Broken, Whole
<1>8. CASE Truncate
  BY <1>8 DEF Truncate, WriteStep, TypeOK, BootInv, CutInv, FileName, Broken, Whole
<1>9. CASE Stringify
  BY <1>9 DEF Stringify, WriteStep, TypeOK, BootInv, CutInv, FileName, Broken, Whole
<1>10. CASE Flush
  BY <1>10 DEF Flush, WriteStep, TypeOK, BootInv, CutInv, FileName, Broken, Whole
<1>11. CASE Close
  BY <1>11 DEF Close, WriteStep, TypeOK, BootInv, CutInv, FileName, Broken, Whole
<1>12. CASE WriteFails
  BY <1>12 DEF WriteFails, TypeOK, BootInv, CutInv, FileName, Broken, Whole
<1>13. CASE Crash
  BY <1>13 DEF Crash, Restart, TypeOK, BootInv, CutInv, FileName, Broken, Whole
<1>14. CASE EraseKey
  BY <1>14 DEF EraseKey, TypeOK, BootInv, CutInv, FileName, Broken, Whole
<1>15. CASE RestartErased
  BY <1>15 DEF RestartErased, Restart, TypeOK, BootInv, CutInv, FileName, Broken, Whole
<1>16. CASE UNCHANGED vars
  BY <1>16 DEF vars, ram, TypeOK, BootInv, CutInv, FileName, Broken, Whole
<1> QED
  BY <1>1, <1>2, <1>3, <1>4, <1>5, <1>6, <1>7, <1>8, <1>9, <1>10, <1>11, <1>12, <1>13,
     <1>14, <1>15, <1>16 DEF Next, Main, Write

DurableInv == TypeOK /\ BootInv /\ CutInv /\ SavedInv

\* The settings stay in the file, or on their way there.
LEMMA SavedStep == DurableInv /\ [Next]_vars => SavedInv'
<1> SUFFICES ASSUME DurableInv, [Next]_vars
             PROVE  SavedInv'
  OBVIOUS
<1> USE DEF flash, counters, ghosts
<1>1. CASE ReadKey
  BY <1>1 DEF ReadKey, DurableInv, TypeOK, BootInv, CutInv, SavedInv, NoneWaits, FileName, Broken, Whole
<1>2. CASE GenKey
  BY <1>2 DEF GenKey, DurableInv, TypeOK, BootInv, CutInv, SavedInv, NoneWaits, FileName, Broken, Whole
<1>3. CASE Load
  <2>1. file[key] \in File /\ key \in Key /\ boot = "load" /\ writer = "idle"
    BY <1>3 DEF Load, Loads, DurableInv, TypeOK, BootInv
  <2>2. CASE keyReset \/ Unreadable
    BY <1>3, <2>2 DEF Load, Loads, SavedInv
  <2>3. CASE ~(keyReset \/ Unreadable)
    <3>1. /\ boot' = "hooks" /\ UNCHANGED <<file, key, torn>>
          /\ file[key].is = "whole" => settings' = file[key].s
      BY <1>3, <2>3 DEF Load, Loads, FileName
    <3>2. file[key].is \in {"partial", "whole"}
      BY <2>1, <2>3 DEF Unreadable, FileName, File
    <3>3. CASE file[key].is = "whole"
      <4>1. file[key] = Whole(settings')
        BY <2>1, <3>1, <3>3, Built
      <4> QED
        BY <3>1, <4>1 DEF SavedInv, Whole
    <3>4. CASE file[key].is = "partial"
      <4>1. key \in torn
        BY <2>1, <3>4 DEF DurableInv, CutInv
      <4> QED
        BY <3>1, <4>1 DEF SavedInv
    <3> QED
      BY <3>2, <3>3, <3>4
  <2> QED
    BY <2>2, <2>3
<1>4. CASE Hooks
  BY <1>4 DEF Hooks, Start, DurableInv, TypeOK, BootInv, CutInv, SavedInv, NoneWaits, FileName, Broken, Whole
<1>5. ASSUME NEW u \in Users, NEW password \in BOOLEAN, Change(u, password)
      PROVE  SavedInv'
  BY <1>5 DEF Change, DurableInv, TypeOK, BootInv, CutInv, SavedInv, NoneWaits, FileName, Broken, Whole
<1>6. ASSUME NEW u \in Users, Notify(u)
      PROVE  SavedInv'
  BY <1>6 DEF Notify, Start, DurableInv, TypeOK, BootInv, CutInv, SavedInv, NoneWaits, FileName, Broken, Whole
<1>7. CASE Fire
  BY <1>7 DEF Fire, DurableInv, TypeOK, BootInv, CutInv, SavedInv, NoneWaits, FileName, Broken, Whole
<1>8. CASE Truncate
  BY <1>8 DEF Truncate, WriteStep, DurableInv, TypeOK, BootInv, CutInv, SavedInv, NoneWaits, FileName, Broken, Whole
<1>9. CASE Stringify
  BY <1>9 DEF Stringify, WriteStep, DurableInv, TypeOK, BootInv, CutInv, SavedInv, NoneWaits, FileName, Broken, Whole
<1>10. CASE Flush
  BY <1>10 DEF Flush, WriteStep, DurableInv, TypeOK, BootInv, CutInv, SavedInv, NoneWaits, FileName, Broken, Whole
<1>11. CASE Close
  BY <1>11 DEF Close, WriteStep, DurableInv, TypeOK, BootInv, CutInv, SavedInv, NoneWaits, FileName, Broken, Whole
<1>12. CASE WriteFails
  BY <1>12 DEF WriteFails, DurableInv, TypeOK, BootInv, CutInv, SavedInv, NoneWaits, FileName, Broken, Whole
<1>13. CASE Crash
  BY <1>13 DEF Crash, Restart, DurableInv, TypeOK, BootInv, CutInv, SavedInv, NoneWaits, FileName, Broken, Whole
<1>14. CASE EraseKey
  BY <1>14 DEF EraseKey, DurableInv, TypeOK, BootInv, CutInv, SavedInv, NoneWaits, FileName, Broken, Whole
<1>15. CASE RestartErased
  BY <1>15 DEF RestartErased, Restart, DurableInv, TypeOK, BootInv, CutInv, SavedInv, NoneWaits, FileName, Broken, Whole
<1>16. CASE UNCHANGED vars
  BY <1>16 DEF vars, ram, DurableInv, TypeOK, BootInv, CutInv, SavedInv, NoneWaits, FileName, Broken, Whole
<1> QED
  BY <1>1, <1>2, <1>3, <1>4, <1>5, <1>6, <1>7, <1>8, <1>9, <1>10, <1>11, <1>12, <1>13,
     <1>14, <1>15, <1>16 DEF Next, Main, Write

-----------------------------------------------------------------------------
(* A start brings back what was at rest.                                   *)

\* What was at rest stays in its file, under a key that can be read back, until the
\* next start runs with it; no default is written over it.
KeptInv ==
  kept.known =>
    /\ boot # "defaults" /\ writer = "idle" /\ ~armed /\ ~keyReset /\ NoneWaits
    /\ boot # "run" => nvs.whole /\ nvs.id # 0 /\ file[nvs.id] = Whole(kept.s)
    /\ boot = "load" => key = nvs.id
    /\ boot \in {"hooks", "run"} => settings = kept.s

\* What was at rest when the power failed stays what the next start will run with.
LEMMA KeptStep == DurableInv /\ KeptInv /\ [Next]_vars => KeptInv'
<1> SUFFICES ASSUME DurableInv, KeptInv, [Next]_vars
             PROVE  KeptInv'
  OBVIOUS
<1> USE DEF flash, counters, ghosts
<1>1. CASE ReadKey
  BY <1>1 DEF ReadKey, DurableInv, TypeOK, BootInv, KeptInv, NoneWaits, FileName, Unknown, Whole
<1>2. CASE GenKey
  BY <1>2 DEF GenKey, DurableInv, TypeOK, BootInv, KeptInv, NoneWaits, FileName, Unknown, Whole
<1>3. CASE Load
  BY <1>3 DEF Load, Loads, Unreadable, DurableInv, TypeOK, BootInv, KeptInv, NoneWaits, FileName, Unknown, Whole
<1>4. CASE Hooks
  BY <1>4 DEF Hooks, Start, DurableInv, TypeOK, BootInv, KeptInv, NoneWaits, FileName, Unknown, Whole
<1>5. ASSUME NEW u \in Users, NEW password \in BOOLEAN, Change(u, password)
      PROVE  KeptInv'
  BY <1>5 DEF Change, DurableInv, TypeOK, BootInv, KeptInv, NoneWaits, FileName, Unknown, Whole
<1>6. ASSUME NEW u \in Users, Notify(u)
      PROVE  KeptInv'
  BY <1>6 DEF Notify, Start, DurableInv, TypeOK, BootInv, KeptInv, NoneWaits, FileName, Unknown, Whole
<1>7. CASE Fire
  BY <1>7 DEF Fire, DurableInv, TypeOK, BootInv, KeptInv, NoneWaits, FileName, Unknown, Whole
<1>8. CASE Truncate
  BY <1>8 DEF Truncate, WriteStep, DurableInv, TypeOK, BootInv, KeptInv, NoneWaits, FileName, Unknown, Whole
<1>9. CASE Stringify
  BY <1>9 DEF Stringify, WriteStep, DurableInv, TypeOK, BootInv, KeptInv, NoneWaits, FileName, Unknown, Whole
<1>10. CASE Flush
  BY <1>10 DEF Flush, WriteStep, DurableInv, TypeOK, BootInv, KeptInv, NoneWaits, FileName, Unknown, Whole
<1>11. CASE Close
  BY <1>11 DEF Close, WriteStep, DurableInv, TypeOK, BootInv, KeptInv, NoneWaits, FileName, Unknown, Whole
<1>12. CASE WriteFails
  BY <1>12 DEF WriteFails, DurableInv, TypeOK, BootInv, KeptInv, NoneWaits, FileName, Unknown, Whole
<1>13. CASE Crash
  <2>1. /\ boot' = "key" /\ writer' = "idle" /\ armed' = FALSE /\ keyReset' = FALSE
        /\ NoneWaits' /\ UNCHANGED flash
    BY <1>13 DEF Crash, Restart, NoneWaits
  <2>2. CASE boot # "run"
    <3>1. kept' = kept
      BY <1>13, <2>2 DEF Crash
    <3> QED
      BY <2>1, <2>2, <3>1 DEF KeptInv, Whole
  <2>3. CASE boot = "run"
    <3>1. kept' = [known |-> /\ AtRest /\ ~dropped /\ key \notin torn
                             /\ nvs.whole /\ nvs.id = key /\ key # 0,
                   s |-> settings]
      BY <1>13, <2>3 DEF Crash, FileName
    <3>2. kept'.s = settings
      BY <3>1
    <3>3. kept'.known => /\ AtRest /\ ~dropped /\ key \notin torn
                         /\ nvs.whole /\ nvs.id = key /\ key # 0
      BY <3>1
    <3>4. AtRest /\ ~dropped /\ key \notin torn => file[key] = Whole(settings)
      BY DEF AtRest, DurableInv, SavedInv, NoneWaits
    <3> QED
      BY <2>1, <3>2, <3>3, <3>4 DEF KeptInv, Whole
  <2> QED
    BY <2>2, <2>3
<1>14. CASE EraseKey
  BY <1>14 DEF EraseKey, DurableInv, TypeOK, BootInv, KeptInv, NoneWaits, FileName, Unknown, Whole
<1>15. CASE RestartErased
  BY <1>15 DEF RestartErased, Restart, DurableInv, TypeOK, BootInv, KeptInv, NoneWaits, FileName, Unknown, Whole
<1>16. CASE UNCHANGED vars
  BY <1>16 DEF vars, ram, DurableInv, TypeOK, BootInv, KeptInv, NoneWaits, FileName, Unknown, Whole
<1> QED
  BY <1>1, <1>2, <1>3, <1>4, <1>5, <1>6, <1>7, <1>8, <1>9, <1>10, <1>11, <1>12, <1>13,
     <1>14, <1>15, <1>16 DEF Next, Main, Write

-----------------------------------------------------------------------------
(* A reset is final.                                                       *)

\* Settings that may still be loaded after the last reset.
Recent(s) == s.ver = 0 \/ s.ver > floor

\* Keys are generated in order, and none before has the file of the next.
KeysInv ==
  /\ nvs.id <= keys /\ key <= keys
  /\ \A n \in Key : n > keys => file[n] = Broken("absent")

\* Whatever a key gives access to was changed after the last reset; the key that is
\* erased gives access to nothing.
RecentInv ==
  /\ floor <= versions
  /\ erasing => nvs.id = 0
  /\ nvs.id # 0 => Recent(file[nvs.id].s)
  /\ key # 0 => Recent(file[key].s) /\ Recent(text) /\ Recent(settings)

\* Keys stay in order.
LEMMA KeysStep == TypeOK /\ BootInv /\ KeysInv /\ [Next]_vars => KeysInv'
<1> SUFFICES ASSUME TypeOK, BootInv, KeysInv, [Next]_vars
             PROVE  KeysInv'
  OBVIOUS
<1> USE DEF flash, counters, ghosts
<1>1. CASE ReadKey
  BY <1>1 DEF ReadKey, TypeOK, BootInv, KeysInv, FileName, Key
<1>2. CASE GenKey
  BY <1>2 DEF GenKey, TypeOK, BootInv, KeysInv, FileName, Key
<1>3. CASE Load
  BY <1>3 DEF Load, Loads, Unreadable, TypeOK, BootInv, KeysInv, FileName, Key
<1>4. CASE Hooks
  BY <1>4 DEF Hooks, Start, TypeOK, BootInv, KeysInv, FileName, Key
<1>5. ASSUME NEW u \in Users, NEW password \in BOOLEAN, Change(u, password)
      PROVE  KeysInv'
  BY <1>5 DEF Change, TypeOK, BootInv, KeysInv, FileName, Key
<1>6. ASSUME NEW u \in Users, Notify(u)
      PROVE  KeysInv'
  BY <1>6 DEF Notify, Start, TypeOK, BootInv, KeysInv, FileName, Key
<1>7. CASE Fire
  BY <1>7 DEF Fire, TypeOK, BootInv, KeysInv, FileName, Key
<1>8. CASE Truncate
  BY <1>8 DEF Truncate, WriteStep, TypeOK, BootInv, KeysInv, FileName, Key
<1>9. CASE Stringify
  BY <1>9 DEF Stringify, WriteStep, TypeOK, BootInv, KeysInv, FileName, Key
<1>10. CASE Flush
  BY <1>10 DEF Flush, WriteStep, TypeOK, BootInv, KeysInv, FileName, Key
<1>11. CASE Close
  BY <1>11 DEF Close, WriteStep, TypeOK, BootInv, KeysInv, FileName, Key
<1>12. CASE WriteFails
  BY <1>12 DEF WriteFails, TypeOK, BootInv, KeysInv, FileName, Key
<1>13. CASE Crash
  BY <1>13 DEF Crash, Restart, TypeOK, BootInv, KeysInv, FileName, Key
<1>14. CASE EraseKey
  BY <1>14 DEF EraseKey, TypeOK, BootInv, KeysInv, FileName, Key
<1>15. CASE RestartErased
  BY <1>15 DEF RestartErased, Restart, TypeOK, BootInv, KeysInv, FileName, Key
<1>16. CASE UNCHANGED vars
  BY <1>16 DEF vars, ram, TypeOK, BootInv, KeysInv, FileName, Key
<1> QED
  BY <1>1, <1>2, <1>3, <1>4, <1>5, <1>6, <1>7, <1>8, <1>9, <1>10, <1>11, <1>12, <1>13,
     <1>14, <1>15, <1>16 DEF Next, Main, Write

\* A file that was never written holds no settings.
LEMMA AbsentRecent ==
  ASSUME TypeOK, KeysInv, keys < MaxKeys
  PROVE  keys + 1 \in Key /\ file[keys + 1].s = Defaults
<1>1. keys + 1 \in Key /\ keys + 1 > keys
  BY Bounds DEF TypeOK, Key
<1> QED
  BY <1>1 DEF KeysInv, Broken

\* What was changed before the last reset stays out of reach.
LEMMA RecentStep == TypeOK /\ BootInv /\ KeysInv /\ RecentInv /\ [Next]_vars => RecentInv'
<1> SUFFICES ASSUME TypeOK, BootInv, KeysInv, RecentInv, [Next]_vars
             PROVE  RecentInv'
  OBVIOUS
<1> USE DEF flash, counters, ghosts
<1>1. CASE ReadKey
  <2>1. settings = Defaults /\ text = Defaults /\ UNCHANGED <<nvs, file, text, settings, floor, versions, erasing>>
    BY <1>1 DEF ReadKey, BootInv
  <2>2. \/ key' = nvs.id /\ nvs.id # 0
        \/ keys < MaxKeys /\ key' = keys + 1
    BY <1>1 DEF ReadKey
  <2>3. Recent(Defaults)
    BY DEF Recent, Defaults
  <2>4. key' # 0 => Recent(file[key'].s)
    BY <2>2, <2>3, AbsentRecent DEF RecentInv
  <2> QED
    BY <2>1, <2>3, <2>4 DEF RecentInv, Recent
<1>2. CASE GenKey
  <2>1. /\ settings = Defaults /\ text = Defaults /\ key = 0
        /\ UNCHANGED <<file, text, settings, floor, versions, erasing>>
    BY <1>2 DEF GenKey, BootInv
  <2>2. /\ boot = "key" /\ nvs.id = 0
        /\ \/ keys < MaxKeys /\ key' = keys + 1 /\ nvs'.id = keys + 1
           \/ UNCHANGED <<nvs, key>>
    BY <1>2 DEF GenKey
  <2>3. Recent(Defaults)
    BY DEF Recent, Defaults
  <2>4. /\ key' # 0 => Recent(file[key'].s)
        /\ nvs'.id # 0 => Recent(file[nvs'.id].s)
    BY <2>1, <2>2, <2>3, AbsentRecent DEF RecentInv
  <2>5. ~erasing
    BY <2>2 DEF BootInv
  <2> QED
    BY <2>1, <2>3, <2>4, <2>5 DEF RecentInv, Recent
<1>3. CASE Load
  BY <1>3 DEF Load, Loads, Unreadable, TypeOK, BootInv, KeysInv, RecentInv, Recent, FileName, Defaults, Broken, Whole
<1>4. CASE Hooks
  BY <1>4 DEF Hooks, Start, TypeOK, BootInv, KeysInv, RecentInv, Recent, FileName, Defaults, Broken, Whole
<1>5. ASSUME NEW u \in Users, NEW password \in BOOLEAN, Change(u, password)
      PROVE  RecentInv'
  BY <1>5 DEF Change, TypeOK, BootInv, KeysInv, RecentInv, Recent, FileName, Defaults, Broken, Whole
<1>6. ASSUME NEW u \in Users, Notify(u)
      PROVE  RecentInv'
  BY <1>6 DEF Notify, Start, TypeOK, BootInv, KeysInv, RecentInv, Recent, FileName, Defaults, Broken, Whole
<1>7. CASE Fire
  BY <1>7 DEF Fire, TypeOK, BootInv, KeysInv, RecentInv, Recent, FileName, Defaults, Broken, Whole
<1>8. CASE Truncate
  BY <1>8 DEF Truncate, WriteStep, TypeOK, BootInv, KeysInv, RecentInv, Recent, FileName, Defaults, Broken, Whole
<1>9. CASE Stringify
  BY <1>9 DEF Stringify, WriteStep, TypeOK, BootInv, KeysInv, RecentInv, Recent, FileName, Defaults, Broken, Whole
<1>10. CASE Flush
  BY <1>10 DEF Flush, WriteStep, TypeOK, BootInv, KeysInv, RecentInv, Recent, FileName, Defaults, Broken, Whole
<1>11. CASE Close
  BY <1>11 DEF Close, WriteStep, TypeOK, BootInv, KeysInv, RecentInv, Recent, FileName, Defaults, Broken, Whole
<1>12. CASE WriteFails
  BY <1>12 DEF WriteFails, TypeOK, BootInv, KeysInv, RecentInv, Recent, FileName, Defaults, Broken, Whole
<1>13. CASE Crash
  BY <1>13 DEF Crash, Restart, TypeOK, BootInv, KeysInv, RecentInv, Recent, FileName, Defaults, Broken, Whole
<1>14. CASE EraseKey
  BY <1>14 DEF EraseKey, TypeOK, BootInv, KeysInv, RecentInv, Recent, FileName, Defaults, Broken, Whole
<1>15. CASE RestartErased
  BY <1>15 DEF RestartErased, Restart, TypeOK, BootInv, KeysInv, RecentInv, Recent, FileName, Defaults, Broken, Whole
<1>16. CASE UNCHANGED vars
  BY <1>16 DEF vars, ram, TypeOK, BootInv, KeysInv, RecentInv, Recent, FileName, Defaults, Broken, Whole
<1> QED
  BY <1>1, <1>2, <1>3, <1>4, <1>5, <1>6, <1>7, <1>8, <1>9, <1>10, <1>11, <1>12, <1>13,
     <1>14, <1>15, <1>16 DEF Next, Main, Write

-----------------------------------------------------------------------------
(* The theorems.                                                           *)

\* The inductive invariant: what the file holds, what a start brings back, and
\* what a reset has put out of reach.
ConfigInv == DurableInv /\ KeptInv /\ KeysInv /\ RecentInv

\* It holds at first, and every step keeps it.
LEMMA ConfigInvariant == Spec => []ConfigInv
<1>1. Init => TypeOK
  BY InitTyped
<1>2. ASSUME Init
      PROVE  ConfigInv
  <2>1. BootInv /\ CutInv /\ SavedInv /\ KeptInv
    BY <1>2 DEF Init, BootInv, CutInv, SavedInv, KeptInv, NoneWaits, Broken, Unknown
  <2>2. KeysInv /\ RecentInv
    BY <1>2 DEF Init, KeysInv, RecentInv
  <2> QED
    BY <1>1, <1>2, <2>1, <2>2 DEF ConfigInv, DurableInv
<1>3. ConfigInv /\ [Next]_vars => ConfigInv'
  BY TypeStep, BootStep, CutStep, SavedStep, KeptStep, KeysStep, RecentStep
  DEF ConfigInv, DurableInv
<1> QED
  BY <1>2, <1>3, PTL DEF Spec

\* No change is lost between the threads that make it, the timer and the file: what is
\* not in the file at rest was cut short there, or could not start the timer
\* (ConfigBase::onConfigNotify, config.cpp:189).
THEOREM ChangesDurable == Spec => []Durable
<1>1. ConfigInv => Durable
  BY DEF ConfigInv, DurableInv, SavedInv, Durable, AtRest, NoneWaits, FileName
<1> QED
  BY <1>1, ConfigInvariant, PTL

\* What was at rest when the power failed is what the next start runs with.
THEOREM StartRestores == Spec => []Restores
<1>1. ASSUME ConfigInv
      PROVE  Restores
  <2>1. boot \in {"key", "load", "defaults", "hooks", "run"}
    BY <1>1 DEF ConfigInv, DurableInv, TypeOK
  <2> QED
    BY <1>1, <2>1 DEF ConfigInv, KeptInv, Restores
<1> QED
  BY <1>1, ConfigInvariant, PTL

\* No start with a key of its own brings back settings from before a reset.
THEOREM ResetFinal == Spec => []NoResurrection
<1>1. ConfigInv => NoResurrection
  BY DEF ConfigInv, RecentInv, Recent, NoResurrection
<1> QED
  BY <1>1, ConfigInvariant, PTL
=============================================================================
