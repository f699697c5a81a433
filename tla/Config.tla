------------------------------- MODULE Config -------------------------------
(***************************************************************************)
(* The configuration personality: the transport and engine of              *)
(* ble/config.rs, the protocol of maple-protocol/src/config_protocol.rs,   *)
(* and the boots around it that load and save the same preferences.        *)
(* Exactly one personality runs per boot.  A client's writes are queued by *)
(* the GATT callback and taken by the engine, which awaits the flash work  *)
(* of one before it takes the next; a reset can come at every await.       *)
(***************************************************************************)
EXTENDS PrefsJournal, Sequences

CONSTANTS
    Seqs,       \* sequence numbers a client uses
    NoSeq,      \* no transaction
    NoMap,
    QueueDepth  \* capacity of COMMANDS (4 in the code)

ASSUME QueueAssumption == QueueDepth \in Nat

VARIABLES
    boot,       \* the personality, and how far the configuration one is
    prefs,      \* LoadedPrefs of this boot
    tx,         \* ConfigProtocol::state
    stored,     \* ConfigProtocol::stored, and the StoredMap characteristic
    candidate,
    queue,      \* COMMANDS
    due,        \* the deadlines that have passed
    wrecked     \* a save that had erased the page has failed

session == <<tx, stored, candidate, queue, due>>
vars == <<page, save, boot, prefs, session, wrecked>>

Op == {"preview", "commit"}
Deadline == {"arm", "idle", "ceiling"}
Idle == [phase |-> "idle", seq |-> NoSeq, op |-> "none"]
Armed(seq, op) == [phase |-> "armed", seq |-> seq, op |-> op]
Working(seq, op) == [phase |-> "working", seq |-> seq, op |-> op]

\* What a client may write: a Control request with an operation that exists or
\* not; a Map that is a table or, as NoMap, is none; "other" is a Ping, an opcode
\* that does not exist or a request that is not 4 bytes long.
Command ==
    [op : {"begin"}, seq : Seqs, arg : Op \cup {"bad"}]
    \cup [op : {"abort", "reset"}, seq : Seqs]
    \cup [op : {"revert", "exit", "other"}]
    \cup [op : {"map"}, map : Maps \cup {NoMap}]

TypeOK ==
    /\ page \in [Slot -> Contents]
    /\ save \in Saves \cup {NoSave}
    /\ boot \in {"hid", "advertising", "serving", "leaving"}
    /\ prefs \in Prefs
    /\ tx \in {Idle} \cup {Armed(s, o) : s \in Seqs, o \in Op}
              \cup {Working(s, o) : s \in Seqs, o \in {"commit", "defaults"}}
    /\ stored \in Maps /\ candidate \in Maps \cup {NoMap}
    /\ queue \in Seq(Command) /\ Len(queue) <= QueueDepth
    /\ due \subseteq Deadline
    /\ wrecked \in BOOLEAN

-----------------------------------------------------------------------------
(* Boots *)

\* What load_prefs returns at this moment.
Now == Loaded(page)

\* ConfigProtocol::new over what the boot loaded; nothing queued, nothing due.
Fresh(loaded) ==
    /\ prefs' = loaded
    /\ tx' = Idle /\ stored' = loaded.map /\ candidate' = NoMap
    /\ queue' = <<>> /\ due' = {}
    /\ wrecked' = FALSE

Init ==
    /\ page \in {[i \in Slot |-> Blank]}
                \cup {[i \in Slot |-> IF i = 1 THEN Legacy(p) ELSE Blank] : p \in ProfileId}
    /\ save = NoSave /\ boot = "hid" /\ prefs = Loaded(page)
    /\ tx = Idle /\ stored = prefs.map /\ candidate = NoMap
    /\ queue = <<>> /\ due = {} /\ wrecked = FALSE

\* Power comes back, or the chip has reset itself: the marker for the
\* configuration personality lasts one boot.
Boot(personality) ==
    /\ Reset
    /\ boot' = personality
    /\ Fresh(Loaded(page'))

PowerLoss == Boot("hid")

\* The gesture: marker and reset at once, in either personality, whatever the
\* flash is doing (the button task asks only about VMU saves).
ConfigGesture == Boot("advertising")

\* Mutant: the profile is saved over a default map.
SaveProfileAlone ==
    /\ boot = "hid" /\ save = NoSave
    /\ LET next == IF Now.profile = Xbox THEN Generic ELSE Xbox
       IN  StartSave([profile |-> next, map |-> Default])
    /\ UNCHANGED <<boot, prefs, session, wrecked>>

\* The HID personality takes a PROFILE_CHANGE: it saves the other profile with
\* the map a load gives now, and resets whatever the save returned.
SaveProfile ==
    /\ boot = "hid" /\ save = NoSave
    /\ LET next == IF Now.profile = Xbox THEN Generic ELSE Xbox
       IN  StartSave([Now EXCEPT !.profile = next])
    /\ UNCHANGED <<boot, prefs, session, wrecked>>

ProfileSaved ==
    /\ boot = "hid" /\ save # NoSave
    /\ \/ save.next = "verify" /\ page' = page
       \/ FlashFails
    /\ save' = NoSave /\ boot' = "hid" /\ Fresh(Loaded(page'))

\* The operations of a save that succeed.
FlashWorks ==
    /\ Erase \/ WriteBody \/ WriteHeader
    /\ UNCHANGED <<boot, prefs, session, wrecked>>

-----------------------------------------------------------------------------
(* The session *)

Connect ==
    /\ boot = "advertising"
    /\ boot' = "serving" /\ Fresh(prefs)
    /\ UNCHANGED <<page, save>>

AdvertisingLapses == boot = "advertising" /\ Boot("hid")

\* gatt_server::run returns; select drops the engine wherever it is.
Disconnect == boot \in {"serving", "leaving"} /\ Boot("hid")

\* The 100 ms of grace are over.
Left == boot = "leaving" /\ Boot("hid")

\* A callback's try_send: a full channel loses the write. Those of the grace are
\* left out: nothing takes them.
ClientWrites(c) ==
    /\ boot = "serving" /\ Len(queue) < QueueDepth
    /\ queue' = Append(queue, c)
    /\ UNCHANGED <<page, save, boot, prefs, tx, stored, candidate, due, wrecked>>

\* The arm deadline is 5 s and the idle one 120 s, both counted from a write, so
\* an armed transaction is due before the link is idle.
DeadlinePasses(d) ==
    /\ boot = "serving" /\ d \notin due
    /\ d = "arm" => tx.phase = "armed"
    /\ d = "idle" => (tx.phase = "armed" => "arm" \in due)
    /\ due' = due \cup {d}
    /\ UNCHANGED <<page, save, boot, prefs, tx, stored, candidate, queue, wrecked>>

Begin(c) ==
    /\ c.op = "begin"
    /\ IF tx = Idle /\ c.arg \in Op
       THEN /\ tx' = Armed(c.seq, c.arg)
            /\ due' = due \ {"arm", "idle"}
       ELSE /\ due' = due \ {"idle"}      \* BadOp, or Busy
            /\ UNCHANGED tx
    /\ UNCHANGED <<boot, candidate, page, save>>

Abort(c) ==
    /\ c.op = "abort"
    /\ IF tx.phase = "armed" /\ tx.seq = c.seq
       THEN tx' = Idle
       ELSE UNCHANGED tx      \* NotArmed, or SeqMismatch
    /\ due' = due \ {"idle"}
    /\ UNCHANGED <<boot, candidate, page, save>>

ResetDefaults(c) ==
    /\ c.op = "reset"
    /\ IF tx = Idle
       THEN /\ tx' = Working(c.seq, "defaults")
            /\ StartSave([profile |-> prefs.profile, map |-> Default])
       ELSE UNCHANGED <<tx, page, save>>
    /\ due' = due \ {"idle"}
    /\ UNCHANGED <<boot, candidate>>

\* None of these touches the transaction.
Other(c) ==
    /\ c.op \in {"revert", "exit", "other"}
    /\ candidate' = IF c.op = "revert" /\ tx = Idle THEN NoMap ELSE candidate
    /\ boot' = IF c.op = "exit" THEN "leaving" ELSE boot
    /\ due' = due \ {"idle"}
    /\ UNCHANGED <<tx, page, save>>

\* A Map write consumes the armed slot; one that is no valid table concludes the
\* transaction. A preview is finished in the same step, a commit when its save is.
Map(c) ==
    /\ c.op = "map"
    /\ CASE tx = Idle -> UNCHANGED <<tx, candidate, page, save>>
         [] tx # Idle /\ c.map = NoMap ->
              tx' = Idle /\ UNCHANGED <<candidate, page, save>>
         [] tx # Idle /\ c.map # NoMap /\ tx.op = "preview" ->
              /\ tx' = Idle /\ candidate' = c.map
              /\ UNCHANGED <<page, save>>
         [] OTHER ->
              /\ tx' = Working(tx.seq, "commit")
              /\ StartSave([profile |-> prefs.profile, map |-> c.map])
              /\ UNCHANGED candidate
    /\ due' = due \ {"idle"}
    /\ UNCHANGED boot

\* The engine takes the next command; it is back at the channel only when the
\* work of the last one is done.
EngineTakes ==
    /\ boot = "serving" /\ tx.phase # "working" /\ queue # <<>>
    /\ LET c == Head(queue)
       IN  Begin(c) \/ Abort(c) \/ ResetDefaults(c) \/ Other(c) \/ Map(c)
    /\ queue' = Tail(queue)
    /\ UNCHANGED <<prefs, stored, wrecked>>

\* The save is read back and finish_work settles the transaction.
FinishWork(ok) ==
    /\ stored' = IF ok THEN save.prefs.map ELSE stored
    /\ candidate' = IF ok THEN NoMap ELSE candidate
    /\ wrecked' = IF ok THEN FALSE ELSE wrecked \/ save.compacts
    /\ tx' = Idle
    /\ save' = NoSave
    /\ UNCHANGED <<boot, prefs, queue, due>>

CommitSettles ==
    /\ boot = "serving" /\ tx.phase = "working"
    /\ \/ save.next = "verify" /\ FinishWork(Verified) /\ UNCHANGED page
       \/ FlashFails /\ FinishWork(FALSE)

\* Mutant: the poll looks at the session's deadlines only with no slot armed, and
\* never at the slot's.
TimerFiresIdle ==
    /\ boot = "serving" /\ tx = Idle /\ queue = <<>>
    /\ due \cap {"idle", "ceiling"} # {}
    /\ Boot("hid")

\* 20 ms without a command: the live notifications, then ConfigProtocol::poll.
TimerFires ==
    /\ boot = "serving" /\ tx.phase # "working" /\ queue = <<>>
    /\ \/ /\ tx.phase = "armed" /\ "arm" \in due
          /\ tx' = Idle
          /\ due' = due \ {"arm"}
          /\ UNCHANGED <<page, save, boot, prefs, stored, candidate, queue, wrecked>>
       \/ /\ ~(tx.phase = "armed" /\ "arm" \in due)
          /\ due \cap {"idle", "ceiling"} # {}
          /\ Boot("hid")

Next ==
    \/ PowerLoss \/ ConfigGesture
    \/ SaveProfile \/ ProfileSaved \/ FlashWorks
    \/ Connect \/ AdvertisingLapses \/ Disconnect \/ Left
    \/ \E c \in Command : ClientWrites(c)
    \/ \E d \in Deadline : DeadlinePasses(d)
    \/ EngineTakes \/ CommitSettles \/ TimerFires

Spec == Init /\ [][Next]_vars

\* The executor runs the engine, the SoftDevice finishes or fails an operation,
\* the clock runs. Nothing is assumed of the client, the power or the button,
\* and the timer has its turn only while no command comes.
FairSpec ==
    /\ Spec
    /\ WF_vars(EngineTakes) /\ WF_vars(TimerFires) /\ WF_vars(Left)
    /\ WF_vars(FlashWorks) /\ WF_vars(CommitSettles) /\ WF_vars(ProfileSaved)
    /\ WF_vars(AdvertisingLapses)
    /\ \A d \in Deadline : WF_vars(DeadlinePasses(d))

-----------------------------------------------------------------------------
(* Properties *)

\* The map the session reports as stored is the one a boot at this moment loads,
\* through failed, torn and repeated saves. It is ahead of the report only once
\* the header of the save is written, and only a compaction takes it away:
\* between its erase and its header, and after one that failed.
StoredIsLoaded ==
    boot # "hid" =>
        \/ stored = Now.map
        \/ wrecked
        \/ save # NoSave /\ (save.compacts \/ (save.next = "verify" /\ Now = save.prefs))

\* Power may fail, the link drop or the button reset the chip at any point of a
\* save: what a boot loads is still what it was, or is the record being saved;
\* the erase of a full page is the one step that can take it.
JournalKeeps ==
    [][\/ Loaded(page') = Now
       \/ save # NoSave /\ (Loaded(page') = save.prefs \/ save.next = "erase")]_vars

\* The two personalities write one record and each owns one field of it: a
\* profile switch never changes the map, a configuration session never the
\* profile. Compactions are excepted while the page is erased.
EachItsOwn ==
    [][wrecked \/ (save # NoSave /\ save.compacts) \/
       IF boot = "hid" THEN Loaded(page').map = Now.map
                       ELSE Loaded(page').profile = Now.profile]_vars

\* A session whose client falls silent ends: by the idle deadline, whatever the
\* client left armed, queued or being saved.
SilentSessionEnds == <>[](queue = <<>>) => []<>(boot # "serving")
=============================================================================
