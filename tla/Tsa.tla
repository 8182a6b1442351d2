-------------------------------- MODULE Tsa --------------------------------
(***************************************************************************)
(* The time-stamping authority (crates/oe-tsa-core, bin/tsa-server): the   *)
(* service that stamps, with the clock of TimeSource and the keys and      *)
(* files of TsaKeys.  A handler takes the material once, asks the monitor  *)
(* for the time, journals and signs; meanwhile the monitor polls, and a    *)
(* task adopts the certificate that a renewal wrote to the file.  The      *)
(* container may stop at any moment; it enrols, then serves.               *)
(*                                                                         *)
(* What is wrong with a request (its hash, policy, extensions) is refused  *)
(* before all this and changes nothing; serial numbers are random.         *)
(***************************************************************************)
EXTENDS TsaKeys

CONSTANT Handler    \* the threads that answer requests

ASSUME HandlerAssumption == IsFiniteSet(Handler)

VARIABLES
    phase,      \* of the container: "down", "enrolled", "booting", "serving"
    material,   \* Authority.material: certificate and chain, 0 without it
    reload,     \* the task of spawn_reload: the certificate it has read
    refused,    \* the certificate it has refused
    handler,    \* what each handler does
    token       \* the last token given, until the next request

serviceVars == <<phase, material, reload, refused, handler, token>>
vars == <<timeVars, keyVars, jobs, serviceVars>>

NoMaterial == [certificate |-> 0, chain |-> 0]
AtRest == [at |-> "idle", certificate |-> 0, leap |-> FALSE,
           lastSync |-> None, genTime |-> None]
NoToken == [certificate |-> 0, key |-> 0, lastSync |-> None, genTime |-> None]

Init ==
    /\ TimeInit
    /\ KeysInit
    /\ phase = "enrolled"
    /\ material = NoMaterial
    /\ reload = 0 /\ refused = 0
    /\ handler = [h \in Handler |-> AtRest]
    /\ token = NoToken

----------------------------------------------------------------------------
(* The life of the container (entrypoint.sh, run_serve).                   *)

(* The enrolment of the start has succeeded, or was not needed.            *)
Enrolled ==
    /\ phase = "down"
    /\ enroll = Idle
    /\ Usable
    /\ phase' = "enrolled"
    /\ UNCHANGED <<timeVars, keyVars, jobs, material, reload, refused, handler, token>>

(* run_serve up to the first poll: the key that the certificate names.     *)
Boot ==
    /\ phase = "enrolled"
    /\ Matching # 0
    /\ material' = [certificate |-> certFile, chain |-> chainFile]
    /\ phase' = "booting"
    /\ StartMonitor
    /\ UNCHANGED <<keyVars, jobs, reload, refused, handler, token>>

(* The first poll is over: Authority::new, and the service listens.        *)
Serve ==
    /\ phase = "booting"
    /\ monitor = "idle"
    /\ slot <= End(material.certificate)
    /\ KeyOf(material.certificate) \in keys
    /\ phase' = "serving"
    /\ UNCHANGED <<timeVars, keyVars, jobs, material, reload, refused, handler, token>>

(* The service stops by itself, or the container is stopped; enroll dies   *)
(* with the container.                                                     *)
Down ==
    /\ phase' = "down"
    /\ StopMonitor
    /\ material' = NoMaterial
    /\ reload' = 0 /\ refused' = 0
    /\ handler' = [h \in Handler |-> AtRest]
    /\ UNCHANGED token

CannotServe ==
    /\ \/ phase = "enrolled" /\ Matching = 0
       \/ /\ phase = "booting" /\ monitor = "idle"
          /\ \/ slot > End(material.certificate)
             \/ KeyOf(material.certificate) \notin keys
    /\ Down
    /\ UNCHANGED <<keyVars, jobs>>

Crash ==
    /\ phase # "down"
    /\ Count
    /\ Down
    /\ enroll' = Idle
    /\ UNCHANGED <<keys, issued, certFile, chainFile, retire, used>>

----------------------------------------------------------------------------
(* reload_once                                                             *)

ReloadRead ==
    /\ phase = "serving"
    /\ reload = 0
    /\ certFile \notin {0, material.certificate, refused}
    /\ reload' = certFile
    /\ UNCHANGED <<timeVars, keyVars, jobs, phase, material, refused, handler, token>>

(* A pass that finds the certificate in service, or none, forgets what it  *)
(* refused.                                                                *)
ReloadNothing ==
    /\ phase = "serving"
    /\ reload = 0
    /\ certFile \in {0, material.certificate}
    /\ refused # 0
    /\ refused' = 0
    /\ UNCHANGED <<timeVars, keyVars, jobs, phase, material, reload, handler, token>>

(* The chain is read after the certificate; the candidate passes the       *)
(* checks of the start, or is not tried again.                             *)
ReloadAdopt ==
    /\ reload # 0
    /\ \/ /\ KeyOf(reload) \in keys
          /\ slot <= End(reload)
          /\ material' = [certificate |-> reload, chain |-> chainFile]
          /\ refused' = 0
          /\ UNCHANGED jobs
       \/ /\ KeyOf(reload) \notin keys \/ slot > End(reload)
          /\ refused' = reload
          /\ UNCHANGED <<material, jobs>>
       \/ /\ Count    \* the token does not answer
          /\ refused' = reload
          /\ UNCHANGED material
    /\ reload' = 0
    /\ UNCHANGED <<timeVars, keyVars, phase, handler, token>>

----------------------------------------------------------------------------
(* timestamp_inner: one step up to each point where others may interfere.  *)

(* The material is taken once.                                             *)
Take(h) ==
    /\ phase = "serving"
    /\ handler[h].at = "idle"
    /\ handler' = [handler EXCEPT ![h] =
                      [at |-> "trace", certificate |-> material.certificate,
                       leap |-> FALSE, lastSync |-> None, genTime |-> None]]
    /\ token' = NoToken
    /\ UNCHANGED <<timeVars, keyVars, jobs, phase, material, reload, refused>>

Refuse(h) ==
    /\ handler' = [handler EXCEPT ![h] = AtRest]
    /\ UNCHANGED <<timeVars, keyVars, jobs, phase, material, reload, refused, token>>

(* Monitor::now, first part: the status.                                   *)
Trace(h) ==
    /\ handler[h].at = "trace"
    /\ \/ Enforce /\ ~status.traceable /\ Refuse(h)
       \/ /\ Enforce => status.traceable
          /\ handler' = [handler EXCEPT ![h] =
                            [handler[h] EXCEPT !.at = "clock",
                                               !.leap = status.leap,
                                               !.lastSync = status.lastSync]]
          /\ UNCHANGED <<timeVars, keyVars, jobs, phase, material, reload,
                         refused, token>>

(* Monitor::now, second part, the end of the key, and the journal.         *)
ReadClock(h) ==
    LET refuse == \/ Enforce /\ LeapBlocks(handler[h], slot)
                  \/ slot >= KeyEnd(handler[h].certificate)
    IN  /\ handler[h].at = "clock"
        /\ \/ refuse /\ Refuse(h)
           \/ /\ ~refuse
              /\ handler' = [handler EXCEPT ![h] =
                                [handler[h] EXCEPT !.at = "sign",
                                                   !.genTime = slot]]
              /\ UNCHANGED <<timeVars, keyVars, jobs, phase, material, reload,
                             refused, token>>

(* Mutant: the signer is that of the moment, not that of the certificate.  *)
SignerOfTheMoment(h) == KeyOf(material.certificate)

Signer(h) == KeyOf(handler[h].certificate)

(* The signature, with the key of the material taken, if it still exists.  *)
Sign(h) ==
    /\ handler[h].at = "sign"
    /\ Signer(h) \in keys
    /\ token' = [certificate |-> handler[h].certificate, key |-> Signer(h),
                 lastSync |-> handler[h].lastSync, genTime |-> handler[h].genTime]
    /\ handler' = [handler EXCEPT ![h] = AtRest]
    /\ UNCHANGED <<timeVars, keyVars, jobs, phase, material, reload, refused>>

(* The journal or the token fails: no token is given.                      *)
Fails(h) ==
    /\ handler[h].at \in {"clock", "sign"}
    /\ Refuse(h)

Stamp(h) == Take(h) \/ Trace(h) \/ ReadClock(h) \/ Sign(h) \/ Fails(h)

----------------------------------------------------------------------------
(* The journal refuses a line of the monitor at the cost of a job.         *)
MonitorStep ==
    /\ monitor # "off"
    /\ \/ Poll(TRUE) /\ UNCHANGED jobs
       \/ Publish(FALSE) /\ Count
    /\ UNCHANGED <<keyVars, serviceVars>>

World ==
    /\ \/ Tick /\ UNCHANGED jobs
       \/ ClockMoves /\ Count
    /\ UNCHANGED <<keyVars, serviceVars>>

Commands ==
    /\ Enroll \/ Retire \/ RetireDestroy \/ RetireGivesUp
    /\ UNCHANGED <<timeVars, serviceVars>>

Next ==
    \/ MonitorStep
    \/ World
    \/ Commands
    \/ Enrolled \/ Boot \/ Serve \/ CannotServe \/ Crash
    \/ ReloadRead \/ ReloadNothing \/ ReloadAdopt
    \/ \E h \in Handler : Stamp(h)

(* The thread of the monitor is never held up for ever.                    *)
Spec == Init /\ [][Next]_vars /\ WF_vars(MonitorStep)

----------------------------------------------------------------------------
(* Every variable has its type.                                            *)
TypeOK ==
    /\ TimeTypeOK
    /\ KeysTypeOK
    /\ phase \in {"down", "enrolled", "booting", "serving"}
    /\ material \in [certificate : 0 .. Len(issued), chain : 0 .. Len(issued)]
    /\ reload \in 0 .. Len(issued) /\ refused \in 0 .. Len(issued)
    /\ handler \in [Handler -> [at : {"idle", "trace", "clock", "sign"},
                                certificate : 0 .. Len(issued), leap : BOOLEAN,
                                lastSync : Slot \cup {None},
                                genTime : Slot \cup {None}]]
    /\ token \in [certificate : 0 .. Len(issued), key : Generation \cup {0},
                  lastSync : Slot \cup {None}, genTime : Slot \cup {None}]

(* The key that signed a token is the one its certificate names, and was   *)
(* not past its end at the time the token tells, whatever was reloaded or  *)
(* destroyed meanwhile (timestamp_inner).                                  *)
TokenVerifies ==
    token # NoToken =>
        /\ token.key = KeyOf(token.certificate)
        /\ token.genTime < KeyEnd(token.certificate)

(* No token tells a time of the last minute of the leap day, nor a time    *)
(* after it on the strength of measures that are all from before           *)
(* (leap_second_blocks), even if a liar keeps the announcement to itself.  *)
LeapSecondIsHeld ==
    FewLiars /\ Enforce /\ token # NoToken =>
        /\ ~(token.genTime \in LastMinute /\ DayOf[token.genTime] = LeapDay)
        /\ DayOf[token.genTime] > LeapDay => DayOf[token.lastSync] > LeapDay
=============================================================================
