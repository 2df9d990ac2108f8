----------------------------- MODULE ConfigStore -----------------------------
(***************************************************************************)
(* How the settings live through restarts (main/config.cpp with the        *)
(* repository and the properties it keeps them in).  The key that encrypts *)
(* the passwords is in NVS; the settings are one file, named after the key *)
(* and written anew one second after the last change.  Power may fail      *)
(* between any two steps.                                                  *)
(*                                                                         *)
(* The settings are abstracted to a version, 0 for the defaults, and to    *)
(* the key that the password was encrypted with.  OneName, UsesNoKey,      *)
(* InvertsResult, GivesUp and KeepsRunning are no part of the              *)
(* specification: each is a slip in the definition that follows it, and    *)
(* breaks a property below.                                                *)
(***************************************************************************)
EXTENDS Integers

CONSTANTS
  Users,        \* the threads that change settings: HTTP and MQTT
  MaxKeys,      \* bound: keys that differ
  MaxVersions,  \* bound: changes of the settings
  MaxCrashes,   \* bound: power failures and restarts
  MaxFails      \* bound: writes that the file system fails, starts that the timer drops

ASSUME ConfigAssumption ==
  {MaxKeys, MaxVersions, MaxCrashes, MaxFails} \subseteq Nat /\ MaxKeys > 0

\* Key 0 is the zero key that m_crypt begins with, or no key.
Key == 0..MaxKeys

\* A password that no key encrypted.
Plain == -1

Settings == [ver : 0..MaxVersions, pass : Key \cup {Plain}]

\* Both config.json and the values that create() is given.
Defaults == [ver |-> 0, pass |-> Plain]

File == [is : {"absent", "empty", "partial", "whole"}, s : Settings]

Broken(how) == [is |-> how, s |-> Defaults]
Whole(s) == [is |-> "whole", s |-> s]

VARIABLES
  nvs,       \* config_key: the key, and whether it has no byte 0 that cuts it off
  file,      \* the file of each name
  boot,      \* where init() is; "run" once the network is up
  key,       \* m_crypt
  keyReset,  \* m_keyReset
  settings,  \* the /*/*/config properties in RAM
  armed,     \* m_timeout runs
  writer,    \* where writeConfig() is: it holds m_lock unless "idle"
  text,      \* what stringify() gave it, until it is written
  user,      \* where each thread is in property::set()
  erasing,   \* resetToDefault() erased the key and will restart
  keys, versions, crashes, fails,   \* counters (bounds)
  dropped,   \* a change is in RAM alone, the start of the timer that was to save it failed
  torn,      \* the names of files whose last write was cut short
  kept,      \* what was at rest in flash when the power last failed
  floor      \* the changes before the last reset to defaults

flash == <<nvs, file>>
ram == <<boot, key, keyReset, settings, armed, writer, text, user, erasing>>
counters == <<keys, versions, crashes, fails>>
ghosts == <<dropped, torn, kept, floor>>
vars == <<flash, ram, counters, ghosts>>

OneName(k) == 0

\* configFileName()
FileName(k) == k

Unknown == [known |-> FALSE, s |-> Defaults]

Init ==
  /\ nvs = [id |-> 0, whole |-> TRUE]
  /\ file = [n \in Key |-> Broken("absent")]
  /\ boot = "key" /\ key = 0 /\ keyReset = FALSE
  /\ settings = Defaults
  /\ armed = FALSE /\ writer = "idle" /\ text = Defaults
  /\ user = [u \in Users |-> "idle"] /\ erasing = FALSE
  /\ keys = 0 /\ versions = 0 /\ crashes = 0 /\ fails = 0
  /\ dropped = FALSE /\ torn = {} /\ kept = Unknown /\ floor = 0

-----------------------------------------------------------------------------
(* The main thread: init() of the four objects.                            *)

\* readKey(): what follows a key that was cut off is whatever the heap holds.
ReadKey ==
  /\ boot = "key" /\ nvs.id # 0
  /\ \/ key' = nvs.id /\ UNCHANGED keys
     \/ ~nvs.whole /\ keys < MaxKeys /\ key' = keys + 1 /\ keys' = keys + 1
  /\ boot' = "load"
  /\ UNCHANGED <<flash, keyReset, settings, armed, writer, text, user, erasing>>
  /\ UNCHANGED <<versions, crashes, fails, ghosts>>

UsesNoKey ==
  /\ boot = "key" /\ nvs.id = 0
  /\ key' = Plain /\ keyReset' = TRUE /\ boot' = "load"
  /\ UNCHANGED <<flash, settings, armed, writer, text, user, erasing, counters, ghosts>>

\* genKey(), and m_crypt stays as it is when the generator fails.
GenKey ==
  /\ boot = "key" /\ nvs.id = 0
  /\ \/ /\ keys < MaxKeys
        /\ keys' = keys + 1 /\ key' = keys + 1 /\ keyReset' = TRUE
        /\ \E whole \in BOOLEAN : nvs' = [id |-> keys + 1, whole |-> whole]
     \/ UNCHANGED <<nvs, keys, key, keyReset>>
  /\ boot' = "load"
  /\ UNCHANGED <<file, settings, armed, writer, text, user, erasing>>
  /\ UNCHANGED <<versions, crashes, fails, ghosts>>

\* readConfig() and parse(): a text that is cut off is discarded as a whole.
Loads(reset) ==
  /\ boot = "load"
  /\ LET f == file[FileName(key)]
     IN settings' = IF ~reset /\ f.is = "whole" THEN f.s ELSE Defaults
  /\ keyReset' = reset
  /\ boot' = IF reset THEN "defaults" ELSE "hooks"
  /\ writer' = IF reset THEN "open" ELSE writer
  /\ UNCHANGED <<flash, key, armed, text, user, erasing, counters, ghosts>>

Unreadable == file[FileName(key)].is \in {"absent", "empty"}

InvertsResult == Loads(keyReset \/ ~Unreadable)

Load == Loads(keyReset \/ Unreadable)

\* m_timeout.start(1): the timer takes the command, or its queue is full, which is
\* logged and no more.
Start ==
  \/ armed' = TRUE /\ dropped' = FALSE /\ UNCHANGED fails
  \/ /\ fails < MaxFails /\ fails' = fails + 1
     /\ dropped' = (dropped \/ ~armed)
     /\ UNCHANGED armed

\* sysConf.init(): from here on a password that is set is encrypted, and that of
\* the defaults is set.
Hooks ==
  /\ \/ boot = "hooks"
     \/ boot = "defaults" /\ writer = "idle"
  /\ settings' = IF keyReset THEN [settings EXCEPT !.pass = key] ELSE settings
  /\ IF keyReset THEN Start ELSE UNCHANGED <<armed, dropped, fails>>
  /\ boot' = "run"
  /\ UNCHANGED <<flash, key, keyReset, writer, text, user, erasing>>
  /\ UNCHANGED <<keys, versions, crashes, torn, kept, floor>>

-----------------------------------------------------------------------------
(* A thread sets a property: property::set(), then notify().               *)

Change(u, password) ==
  /\ boot = "run" /\ user[u] = "idle" /\ versions < MaxVersions
  /\ versions' = versions + 1
  /\ settings' = [ver |-> versions + 1, pass |-> IF password THEN key ELSE settings.pass]
  /\ user' = [user EXCEPT ![u] = "notify"]
  /\ kept' = Unknown
  /\ UNCHANGED <<flash, boot, key, keyReset, armed, writer, text, erasing>>
  /\ UNCHANGED <<keys, crashes, fails, dropped, torn, floor>>

GivesUp(u) ==
  /\ user[u] = "notify"
  /\ armed' = (armed \/ writer = "idle")
  /\ user' = [user EXCEPT ![u] = "idle"]
  /\ UNCHANGED <<flash, boot, key, keyReset, settings, writer, text, erasing, counters, ghosts>>

\* onConfigNotify() waits for m_lock.
Notify(u) ==
  /\ user[u] = "notify" /\ writer = "idle"
  /\ Start
  /\ user' = [user EXCEPT ![u] = "idle"]
  /\ UNCHANGED <<flash, boot, key, keyReset, settings, writer, text, erasing>>
  /\ UNCHANGED <<keys, versions, crashes, torn, kept, floor>>

-----------------------------------------------------------------------------
(* writeConfig(), by the timer task, or by the main thread for the defaults. *)

KeepsRunning ==
  /\ armed /\ writer = "idle"
  /\ writer' = "open"
  /\ UNCHANGED <<flash, boot, key, keyReset, settings, armed, text, user, erasing>>
  /\ UNCHANGED <<counters, ghosts>>

Fire ==
  /\ armed /\ writer = "idle"
  /\ armed' = FALSE
  /\ writer' = "open"
  /\ UNCHANGED <<flash, boot, key, keyReset, settings, text, user, erasing, counters, ghosts>>

WriteStep(from, to, content) ==
  /\ writer = from /\ writer' = to
  /\ file' = [file EXCEPT ![FileName(key)] = content]
  /\ UNCHANGED <<nvs, boot, key, keyReset, settings, armed, user, erasing>>

Truncate ==
  /\ WriteStep("open", "stringify", Broken("empty"))
  /\ UNCHANGED <<text, counters, ghosts>>

Stringify ==
  /\ WriteStep("stringify", "write", Broken("empty"))
  /\ text' = settings
  /\ UNCHANGED <<counters, ghosts>>

Flush ==
  /\ WriteStep("write", "close", Broken("partial"))
  /\ UNCHANGED <<text, counters, ghosts>>

Close ==
  /\ WriteStep("close", "idle", Whole(text))
  /\ torn' = torn \ {FileName(key)} /\ text' = Defaults
  /\ UNCHANGED <<counters, dropped, kept, floor>>

\* The file cannot be opened, or its flash is full, which nobody looks at.
WriteFails ==
  /\ fails < MaxFails /\ fails' = fails + 1
  /\ writer \in {"open", "write", "close"} /\ writer' = "idle"
  /\ torn' = torn \cup {FileName(key)} /\ text' = Defaults
  /\ UNCHANGED <<flash, boot, key, keyReset, settings, armed, user, erasing>>
  /\ UNCHANGED <<keys, versions, crashes, dropped, kept, floor>>

-----------------------------------------------------------------------------
(* Restarts.                                                               *)

AtRest ==
  /\ boot = "run" /\ writer = "idle" /\ ~armed
  /\ \A u \in Users : user[u] = "idle"

Restart ==
  /\ boot' = "key" /\ key' = 0 /\ keyReset' = FALSE
  /\ settings' = Defaults /\ text' = Defaults
  /\ armed' = FALSE /\ writer' = "idle"
  /\ user' = [u \in Users |-> "idle"] /\ erasing' = FALSE
  /\ dropped' = FALSE
  /\ torn' = IF writer \in {"stringify", "write", "close"}
             THEN torn \cup {FileName(key)} ELSE torn

\* Power fails, or app_main() restarts since the main loop was left (restart(), by
\* the button or its control property): that writes no settings either.
Crash ==
  /\ crashes < MaxCrashes /\ crashes' = crashes + 1
  /\ Restart
  /\ kept' = IF boot # "run" THEN kept
             ELSE [known |-> /\ AtRest /\ ~dropped /\ FileName(key) \notin torn
                             /\ nvs.whole /\ nvs.id = key /\ key # 0,
                   s |-> settings]
  /\ UNCHANGED <<flash, keys, versions, fails, floor>>

\* resetToDefault(), from the button or from the repository's control property.
EraseKey ==
  /\ boot = "run" /\ ~erasing
  /\ erasing' = TRUE
  /\ nvs' = [id |-> 0, whole |-> TRUE]
  /\ UNCHANGED <<file, boot, key, keyReset, settings, armed, writer, text, user>>
  /\ UNCHANGED <<counters, ghosts>>

RestartErased ==
  /\ erasing
  /\ Restart
  /\ floor' = versions
  /\ kept' = Unknown
  /\ UNCHANGED <<flash, counters>>

-----------------------------------------------------------------------------
Main == ReadKey \/ GenKey \/ Load \/ Hooks

Write == Fire \/ Truncate \/ Stringify \/ Flush \/ Close

Next ==
  \/ Main \/ Write \/ WriteFails
  \/ \E u \in Users : (\E password \in BOOLEAN : Change(u, password)) \/ Notify(u)
  \/ Crash \/ EraseKey \/ RestartErased

Spec == Init /\ [][Next]_vars

\* Each thread runs, and the timer fires.
Fairness ==
  /\ WF_vars(Main) /\ WF_vars(Write)
  /\ \A u \in Users : WF_vars(Notify(u))

FairSpec == Spec /\ Fairness

-----------------------------------------------------------------------------
(* Properties.                                                             *)

\* Every variable has its type.
TypeOK ==
  /\ nvs \in [id : Key, whole : BOOLEAN]
  /\ file \in [Key -> File]
  /\ boot \in {"key", "load", "defaults", "hooks", "run"}
  /\ key \in Key /\ keyReset \in BOOLEAN /\ settings \in Settings
  /\ armed \in BOOLEAN /\ text \in Settings /\ erasing \in BOOLEAN
  /\ writer \in {"idle", "open", "stringify", "write", "close"}
  /\ user \in [Users -> {"idle", "notify"}]
  /\ keys \in Key /\ versions \in 0..MaxVersions
  /\ crashes \in 0..MaxCrashes /\ fails \in 0..MaxFails /\ dropped \in BOOLEAN
  /\ torn \subseteq Key /\ kept \in [known : BOOLEAN, s : Settings] /\ floor \in 0..MaxVersions

\* No change is lost between the threads: once nothing is under way the file
\* holds the settings in RAM, unless a write was cut short, or a change could not
\* start the timer and none after it did.
Durable ==
  AtRest /\ ~dropped /\ FileName(key) \notin torn => file[FileName(key)] = Whole(settings)

\* What was at rest when the power failed is what the next start runs with, as
\* far as the key can be read back; a second failure during the start included.
Restores == kept.known /\ boot \notin {"key", "load"} => settings = kept.s

\* A reset to the defaults is final: whenever the power fails then, no later
\* start brings settings from before it back (a new key could be generated).
NoResurrection == boot = "run" /\ key # 0 => settings.ver = 0 \/ settings.ver > floor

\* A running firmware comes to rest with every change in flash, unless it restarts
\* first.  What stays in RAM for good is a change whose write failed, or whose start
\* of the timer did, with no change after it: nobody tries again.
Saved ==
  \/ boot = "run" ~> \/ AtRest /\ file[FileName(key)] = Whole(settings)
                     \/ boot # "run"
  \/ <>[](dropped \/ FileName(key) \in torn)

\* What config.cpp says where it installs the hook: saving a password will
\* encrypt it; so no file at rest holds one that is not.
SavedEncrypted ==
  LET f == file[FileName(key)]
  IN AtRest /\ f.is = "whole" => f.s.pass # Plain
=============================================================================
