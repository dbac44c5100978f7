---------------------------- MODULE Notifications ----------------------------
(***************************************************************************)
(* Push notifications and mail: src/src/core/notifications.ts,             *)
(* src/src/api/notifications.ts, src/src/core/mail-queue.ts.  A notice is  *)
(* put into the inbox and enqueued once per enabled provider; FCM is sent  *)
(* device by device, OneSignal and mail to the addressee.  The queue is    *)
(* that of module JobQueue: a job that throws is run again, up to MaxTries *)
(* times.  The world: devices are lost and get their token again, and a    *)
(* provider may be out of order.                                           *)
(***************************************************************************)
EXTENDS Integers, FiniteSets

CONSTANTS Devices, People, Nobody,
          Notices,         \* calls of dispatchNotification and enqueueEmail
          MaxTries, MaxReinstalls

ASSUME NotificationsAssumption == /\ Nobody \notin People /\ Devices \cap People = {}
                                  /\ MaxTries \in Nat \ {0} /\ MaxReinstalls \in Nat

VARIABLES enabled,    \* providers switched on in the settings
          created,    \* the system collections that exist
          booting,    \* bootstrapNotificationCollections: what it creates next, or "no"
          device,     \* cw_device_tokens: the user of each token, and its `enabled`
          reachable,  \* the world: devices whose token the provider knows
          notice,     \* notices: the addressee, and the providers yet to be enqueued
          push,       \* the _notify and _mail jobs
          owner,      \* history: who registered each device last
          owed,       \* history: of each notice, the devices registered for its addressee,
                      \*   and reachable, ever since it was sent, that no try found switched off
          got,        \* history: whom and what each notice reached
          mistaken,   \* history: devices switched off by an answer older than their registration,
                      \*   or by one about the message
          reinstalls  \* history: how often a device came back

Providers == {"onesignal", "fcm"}
Transports == Providers \cup {"mail"}

noteVars == <<enabled, created, booting, device, reachable, notice, push, owner, owed, got,
              mistaken, reinstalls>>
noteHistory == <<owner, owed, got, mistaken, reinstalls>>

\* wait: targets not yet answered for; dead: those whose token counts as unknown to the
\* provider; good: those that registered meanwhile, or whose message was refused; lost: one
\* could not be reached for now.
NoPush == [pc |-> "none", tries |-> 0, wait |-> {}, dead |-> {}, good |-> {}, lost |-> FALSE]
NoNotice == [to |-> Nobody, rest |-> {}]

NotificationsInit ==
  /\ enabled = {} /\ created = {} /\ booting = "no"
  /\ device = [d \in Devices |-> [user |-> Nobody, on |-> FALSE]] /\ reachable = Devices
  /\ notice = [n \in Notices |-> NoNotice]
  /\ push = [n \in Notices |-> [p \in Transports |-> NoPush]]
  /\ owner = [d \in Devices |-> Nobody] /\ owed = [n \in Notices |-> {}]
  /\ got = [n \in Notices |-> {}] /\ mistaken = {} /\ reinstalls = 0

----------------------------------------------------------------------------
\* PATCH /admin/notifications/providers/:name.  Fields that do not belong to the provider
\* refuse the request after the others were stored, and before the bootstrap.
Enable(p, rejected) ==
  /\ booting = "no"
  /\ enabled' = enabled \cup {p}
  /\ booting' = IF rejected THEN "no" ELSE "notifications"
  /\ UNCHANGED <<created, device, reachable, notice, push, noteHistory>>

Disable(p) ==
  /\ enabled' = enabled \ {p}
  /\ UNCHANGED <<created, booting, device, reachable, notice, push, noteHistory>>

\* bootstrapNotificationCollections: what exists is skipped; an error ends it.
Bootstrap ==
  /\ booting # "no"
  /\ \/ created' = created \cup {booting}
        /\ booting' = IF booting = "notifications" THEN "device_tokens" ELSE "no"
     \/ booting \notin created /\ created' = created /\ booting' = "no"
  /\ UNCHANGED <<enabled, device, reachable, notice, push, noteHistory>>

\* POST and DELETE /notifications/devices.
Rebind(d, u) == device' = [device EXCEPT ![d] = [user |-> u, on |-> TRUE]]

Register(d, u) ==
  /\ "device_tokens" \in created
  /\ d \in reachable \/ reinstalls < MaxReinstalls
  /\ reinstalls' = IF d \in reachable THEN reinstalls ELSE reinstalls + 1
  /\ Rebind(d, u)
  /\ reachable' = reachable \cup {d}
  /\ push' = [n \in Notices |-> [push[n] EXCEPT !["fcm"].good = @ \cup {d}]]
  /\ owner' = [owner EXCEPT ![d] = u] /\ mistaken' = mistaken \ {d}
  /\ owed' = [n \in Notices |-> IF notice[n].to # u THEN owed[n] \ {d} ELSE owed[n]]
  /\ UNCHANGED <<enabled, created, booting, notice, got>>

Unregister(d, u) ==
  /\ device[d].user = u /\ device[d].on
  /\ device' = [device EXCEPT ![d].on = FALSE]
  /\ owner' = [owner EXCEPT ![d] = Nobody]
  /\ owed' = [n \in Notices |-> owed[n] \ {d}]
  /\ UNCHANGED <<enabled, created, booting, reachable, notice, push, got, mistaken, reinstalls>>

\* The world: the app is removed from a device.
Uninstall(d) ==
  /\ d \in reachable
  /\ reachable' = reachable \ {d} /\ owed' = [n \in Notices |-> owed[n] \ {d}]
  /\ UNCHANGED <<enabled, created, booting, device, notice, push, owner, got, mistaken, reinstalls>>

----------------------------------------------------------------------------
\* dispatchNotification: the inbox, if it exists, then a job for each enabled provider,
\* one enqueue after the other.  enqueueEmail: one job.
Inboxed(n, u) == IF "notifications" \in created THEN [got EXCEPT ![n] = {"inbox"}] ELSE got

Dispatch(n, u) ==
  /\ notice[n] = NoNotice /\ enabled # {}
  /\ notice' = [notice EXCEPT ![n] = [to |-> u, rest |-> enabled]]
  /\ got' = Inboxed(n, u)
  /\ owed' = [owed EXCEPT ![n] = {d \in reachable : owner[d] = u}]
  /\ UNCHANGED <<enabled, created, booting, device, reachable, push, owner, mistaken, reinstalls>>

EnqueueEmail(n, u) ==
  /\ notice[n] = NoNotice
  /\ notice' = [notice EXCEPT ![n] = [to |-> u, rest |-> {"mail"}]]
  /\ UNCHANGED <<enabled, created, booting, device, reachable, push, noteHistory>>

Enqueue(n, p) ==
  /\ p \in notice[n].rest
  /\ notice' = [notice EXCEPT ![n].rest = @ \ {p}]
  /\ push' = [push EXCEPT ![n][p].pc = "queued"]
  /\ UNCHANGED <<enabled, created, booting, device, reachable, noteHistory>>

\* notifyWorker, mailWorker: a provider switched off meanwhile drops the job; the devices
\* are read anew with every try.
Targets(n, p) ==
  IF p = "fcm" THEN {d \in Devices : device[d] = [user |-> notice[n].to, on |-> TRUE]}
  ELSE {notice[n].to}

Start(n, p) ==
  /\ push[n][p].pc = "queued"
  /\ push' = [push EXCEPT ![n][p] =
       IF p \in Providers \ enabled THEN [@ EXCEPT !.pc = "dropped"]
       ELSE [NoPush EXCEPT !.pc = "sending", !.tries = push[n][p].tries, !.wait = Targets(n, p)]]
  /\ owed' = IF p = "fcm" THEN [owed EXCEPT ![n] = @ \ mistaken] ELSE owed
  /\ UNCHANGED <<enabled, created, booting, device, reachable, notice, owner, got, mistaken, reinstalls>>

\* The provider's answer for one target: accepted, unknown to it, not for now, or refused;
\* FCM's for a message refused may be one that counts as unknown.
Accepted(n, p, x) ==
  /\ x \in push[n][p].wait /\ (x \in Devices => x \in reachable)
  /\ got' = [got EXCEPT ![n] = @ \cup {x}]
  /\ push' = [push EXCEPT ![n][p].wait = @ \ {x}]
  /\ UNCHANGED <<enabled, created, booting, device, reachable, notice, owner, owed, mistaken, reinstalls>>

UnknownTo(n, x) ==
  /\ x \in push[n]["fcm"].wait \ reachable
  /\ push' = [push EXCEPT ![n]["fcm"].wait = @ \ {x}, ![n]["fcm"].dead = @ \cup {x},
                          ![n]["fcm"].good = @ \ {x}]
  /\ UNCHANGED <<enabled, created, booting, device, reachable, notice, noteHistory>>

\* INVALID_ARGUMENT, SENDER_ID_MISMATCH and NOT_FOUND: whatever they are about, the token
\* is taken for dead.
Condemned(n, x) ==
  /\ x \in push[n]["fcm"].wait \cap reachable
  /\ owed' = [owed EXCEPT ![n] = @ \ {x}]
  /\ push' = [push EXCEPT ![n]["fcm"].wait = @ \ {x}, ![n]["fcm"].dead = @ \cup {x},
                          ![n]["fcm"].good = @ \cup {x}]
  /\ UNCHANGED <<enabled, created, booting, device, reachable, notice, owner, got, mistaken, reinstalls>>

NotNow(n, p, x) ==
  /\ x \in push[n][p].wait
  /\ push' = [push EXCEPT ![n][p].wait = @ \ {x}, ![n][p].lost = TRUE]
  /\ UNCHANGED <<enabled, created, booting, device, reachable, notice, noteHistory>>

\* Another refusal for good: the message is dropped.
Rejected(n, p, x) ==
  /\ x \in push[n][p].wait /\ p # "mail"
  /\ owed' = [owed EXCEPT ![n] = @ \ {x}]
  /\ push' = [push EXCEPT ![n][p].wait = @ \ {x}]
  /\ UNCHANGED <<enabled, created, booting, device, reachable, notice, owner, got, mistaken, reinstalls>>

\* sendFcm's ok, sendOneSignal's ok, and sendMail's not throwing.
SomeDelivered(n, p) == \/ ~push[n][p].lost \/ got[n] \cap Devices # {}     \* mutant
AllAnswered(n, p) == ~push[n][p].lost

\* Tokens that count as unknown are switched off; a job that is not ok throws.
JobEnds(n, p) ==
  LET j == push[n][p] IN
  /\ j.pc = "sending" /\ j.wait = {}
  /\ device' = [d \in Devices |-> IF d \in j.dead THEN [device[d] EXCEPT !.on = FALSE] ELSE device[d]]
  /\ mistaken' = mistaken \cup (j.dead \cap j.good)
  /\ push' = [push EXCEPT ![n][p] = [NoPush EXCEPT
       !.pc = IF AllAnswered(n, p) THEN "done" ELSE IF j.tries + 1 < MaxTries THEN "queued" ELSE "failed",
       !.tries = j.tries + 1]]
  /\ UNCHANGED <<enabled, created, booting, reachable, notice, owner, owed, got, reinstalls>>

\* The process ends: what it had not enqueued is lost, and the queue's reaper takes up its jobs.
NotifyCrash ==
  /\ booting' = "no"
  /\ notice' = [n \in Notices |-> [notice[n] EXCEPT !.rest = {}]]
  /\ push' = [n \in Notices |-> [p \in Transports |->
       LET j == push[n][p] IN
       IF j.pc # "sending" THEN j
       ELSE [NoPush EXCEPT !.pc = IF j.tries + 1 < MaxTries THEN "queued" ELSE "failed",
                           !.tries = j.tries + 1]]]
  /\ UNCHANGED <<enabled, created, device, reachable, noteHistory>>

NotificationsNext ==
  \/ \E p \in Providers : Disable(p) \/ \E rejected \in BOOLEAN : Enable(p, rejected)
  \/ Bootstrap \/ NotifyCrash
  \/ \E d \in Devices : Uninstall(d) \/ \E u \in People : Register(d, u) \/ Unregister(d, u)
  \/ \E n \in Notices, u \in People : Dispatch(n, u) \/ EnqueueEmail(n, u)
  \/ \E n \in Notices, p \in Transports :
       \/ Enqueue(n, p) \/ Start(n, p) \/ JobEnds(n, p)
       \/ \E x \in Devices \cup People : 
            Accepted(n, p, x) \/ NotNow(n, p, x) \/ Rejected(n, p, x)
  \/ \E n \in Notices, x \in Devices : UnknownTo(n, x) \/ Condemned(n, x)

NotificationsSpec == NotificationsInit /\ [][NotificationsNext]_noteVars

----------------------------------------------------------------------------
\* A job that ends well has reached each device that was registered for the addressee, and
\* reachable, all the while, and to which the provider did not refuse the message for good,
\* over any number of tries, crashes and answers that are out of date; but a device is
\* passed over that was switched off by an answer that no longer held, as it had registered
\* again, or never did, as it was about another message; until it registers once more.
Reached ==
  \A n \in Notices :
    /\ push[n]["fcm"].pc = "done" => owed[n] \subseteq got[n]
    /\ push[n]["mail"].pc = "done" => notice[n].to \in got[n]

\* The worker sends to a device on behalf of the user who registered it last, and to none
\* that was unregistered: not even one that changed hands while it was switched off.
Addressed == \A d \in Devices : device[d].on => owner[d] = device[d].user
=============================================================================
