---------------------------- MODULE LedPowerProofs ----------------------------
(***************************************************************************)
(* The properties of LedPower, for any tasks and any number of rails.      *)
(*                                                                         *)
(* IInv adds to them who holds the LED's lock, what the task that holds it *)
(* knows about the LED's reference at each of its steps, and which rails a *)
(* reboot has passed.                                                      *)
(***************************************************************************)
EXTENDS LedPower, TLAPS

(* Where a task is inside a call of the LED, and what has been done there.   *)
Asking    == {"request", "request posted", "show"}
GivingUp  == {"clear", "release", "release posted"}
GivingUpR == {"reboot clear", "reboot release", "reboot posted"}
InCall    == Asking \union GivingUp \union GivingUpR

RailsFollow == \A r \in Rails \ stuck : enabled[r] = Effective(r, override[r], refcount[r])

Exclusive == \A t \in Tasks : pc[t] \in InCall <=> hidLock = t

(* The flag that remembers the reference, also after calls that failed.      *)
Known ==
  \A t \in Tasks :
    /\ pc[t] \in {"request", "request posted"} => ~requested
    /\ pc[t] \in {"show", "release", "reboot release", "release posted", "reboot posted"}
         => requested

(* What may be counted beyond what is remembered: one reference for an event *)
(* that was lost, one for each time pins failed.  A rail that could not be   *)
(* switched may change again at the next request, however many are counted;  *)
(* it pays for that with the failure that left it so.                        *)
Held == IF requested THEN 1 ELSE 0

Slack == faults + (IF Led \in stuck THEN 0 ELSE 1)

Leaked ==
  /\ refcount[Led] <= Slack + Held
  /\ \A t \in Tasks : pc[t] \in {"release posted", "reboot posted"} => refcount[Led] <= Slack

(* What the LED was asked and told, at each step of a call.                  *)
Obeys ==
  /\ hidLock = None /\ ledOk => shining = wanted /\ requested = wanted
  /\ \A t \in Tasks :
       /\ pc[t] \in Asking => wanted
       /\ pc[t] \in GivingUp \union GivingUpR => ~wanted
       /\ pc[t] \in {"release", "reboot release", "release posted", "reboot posted"}
            => ~shining

(* The count while no call failed after changing it and none was taken.      *)
Balanced ==
  ~skewed =>
    /\ hidLock = None => refcount[Led] = Held
    /\ \A t \in Tasks :
         /\ pc[t] \in {"request", "show", "clear", "reboot clear", "release", "reboot release"}
              => refcount[Led] = Held
         /\ pc[t] = "request posted" => refcount[Led] = 1
         /\ pc[t] \in {"release posted", "reboot posted"} => refcount[Led] = 0

(* A rail that a reboot has passed is off, unless it was overridden since or *)
(* the reboot could not switch it.                                           *)
Off(r) == (override[r] = "off" /\ ~enabled[r]) \/ r \in overridden

Passed ==
  /\ pending => \A r \in Rails : Off(r)
  /\ \A t \in Tasks :
       /\ pc[t] = "rails" /\ ~failed[t] => \A r \in Rails : r < at[t] => Off(r)
       /\ pc[t] = "rail posted" /\ ~failed[t] => \A r \in Rails : r <= at[t] => Off(r)
       /\ pc[t] = "schedule" /\ ~failed[t] => \A r \in Rails : Off(r)
       /\ pc[t] \notin {"rails", "rail posted", "schedule"} => at[t] = 1

IInv == TypeOK /\ RailsFollow /\ Exclusive /\ Known /\ Leaked /\ Obeys /\ Balanced /\ Passed

(* What a rail should be is a truth value.                                   *)
LEMMA EffectiveIsBoolean ==
  ASSUME NEW r, NEW mode, NEW count PROVE Effective(r, mode, count) \in BOOLEAN
BY DEF Effective

(* Switching a rail (power_mgmt_service_apply_locked) keeps the rails' types. *)
LEMMA FollowType ==
  ASSUME TypeOK, NEW r \in Rails, Follow(r) PROVE enabled' \in [Rails -> BOOLEAN]
BY EffectiveIsBoolean DEF TypeOK, Follow

(* What is leaked at most is a number.                                       *)
LEMMA Numbers ==
  ASSUME IInv
  PROVE  /\ faults \in Nat /\ faults <= MaxFaults /\ refcount[Led] \in Nat
         /\ Slack \in Nat /\ faults <= Slack /\ Slack <= faults + 1
         /\ Held \in {0, 1}
<1>1. faults \in 0 .. MaxFaults /\ refcount[Led] \in Nat
  BY LedPowerAssumption DEF IInv, TypeOK, LedPowerAssumption
<1>2. faults \in Nat /\ faults <= MaxFaults
  BY <1>1, LedPowerAssumption DEF LedPowerAssumption
<1> QED
  BY <1>1, <1>2 DEF Slack, Held

(* The task in a call of the LED has the LED's lock to itself.               *)
LEMMA Alone ==
  ASSUME IInv, NEW t \in Tasks, pc[t] \in InCall
  PROVE  hidLock = t /\ \A s \in Tasks \ {t} : pc[s] \notin InCall
BY DEF IInv, Exclusive

(* Counting the LED's reference (power_mgmt_service_rail_request): the rail  *)
(* changes only if nothing was counted before, or if it could not be         *)
(* switched when last it should have been.                                   *)
LEMMA RailRequestStep == ASSUME IInv, NEW t \in Tasks, RailRequest(t) PROVE IInv'
<1> USE LedPowerAssumption DEF LedPowerAssumption, IInv, rebootVars, GoTo
<1>1. /\ pc[t] = "request" /\ hidLock = t /\ ~requested
      /\ \A s \in Tasks \ {t} : pc[s] \notin InCall
      /\ wanted /\ (~skewed => refcount[Led] = 0)
  <2>1. pc[t] = "request"
    BY DEF RailRequest
  <2>2. ~requested /\ wanted
    BY <2>1 DEF Known, Obeys, Asking
  <2>3. ~skewed => refcount[Led] = 0
    BY <2>1, <2>2 DEF Balanced, Held
  <2> QED
    BY <2>1, <2>2, <2>3, Alone DEF InCall, Asking
<1>2. /\ UNCHANGED <<override, wanted, shining, rebootVars, overridden>>
      /\ refcount' = [refcount EXCEPT ![Led] = @ + 1]
  BY DEF RailRequest
<1>3. /\ refcount \in [Rails -> Nat] /\ faults \in Nat /\ faults <= MaxFaults
      /\ pc \in [Tasks -> Steps] /\ requested \in BOOLEAN
      /\ refcount[Led] <= Slack /\ Slack \in Nat /\ Slack <= faults + 1
  <2>1. Held = 0
    BY <1>1 DEF Held
  <2> QED
    <3>1. refcount[Led] <= Slack + 0 /\ Slack \in Nat /\ Slack <= faults + 1
      BY <2>1, Numbers DEF Leaked
    <3>2. /\ refcount \in [Rails -> Nat] /\ faults \in Nat /\ faults <= MaxFaults
          /\ pc \in [Tasks -> Steps] /\ requested \in BOOLEAN
          /\ wanted \in BOOLEAN /\ shining \in BOOLEAN
      BY Numbers DEF TypeOK
    <3> QED
      BY <3>1, <3>2
<1>4. /\ refcount' \in [Rails -> Nat] /\ refcount'[Led] = refcount[Led] + 1
      /\ \A r \in Rails \ {Led} : refcount'[r] = refcount[r]
  BY <1>2, <1>3
<1>5. CASE Follow(Led) /\ ~PinsFail(Led)
  <2>1. enabled' \in [Rails -> BOOLEAN]
    BY <1>5, FollowType
  <2>2. /\ faults' = faults /\ stuck' = stuck \ {Led} /\ Slack' = faults + 1
        /\ UNCHANGED <<hidLock, ledOk, skewed>>
    BY <1>5 DEF RailRequest, Follow, Slack
  <2>3. \/ /\ enabled' # enabled /\ requested' = requested
           /\ pc' = [pc EXCEPT ![t] = "request posted"]
        \/ requested' = TRUE /\ pc' = [pc EXCEPT ![t] = "show"]
    BY <1>5 DEF RailRequest, Changes
  <2>4. /\ pc' \in [Tasks -> Steps] /\ \A s \in Tasks \ {t} : pc'[s] = pc[s]
        /\ \/ enabled' # enabled /\ ~requested' /\ pc'[t] = "request posted"
           \/ requested' /\ pc'[t] = "show"
        /\ requested' \in BOOLEAN
    <3>1. CASE enabled' # enabled /\ requested' = requested
               /\ pc' = [pc EXCEPT ![t] = "request posted"]
      BY <1>1, <1>3, <3>1 DEF Steps
    <3>2. CASE requested' = TRUE /\ pc' = [pc EXCEPT ![t] = "show"]
      BY <1>1, <1>3, <3>2 DEF Steps
    <3> QED
      BY <2>3, <3>1, <3>2
  <2>5. RailsFollow'
    BY <1>2, <1>3, <1>4, <1>5, <2>1, <2>2 DEF Follow, TypeOK, RailsFollow, Effective
  <2>6. Leaked'
    <3>1. CASE requested'
      <4>1. Held' = 1 /\ refcount'[Led] <= Slack' + 1
        BY <1>3, <1>4, <2>2, <3>1 DEF Held
      <4>2. \A s \in Tasks : pc'[s] \notin {"release posted", "reboot posted"}
        BY <1>1, <2>4 DEF InCall, GivingUp, GivingUpR
      <4> QED
        BY <4>1, <4>2 DEF Leaked
    <3>2. CASE ~requested'
      <4>1. enabled' # enabled /\ pc'[t] = "request posted"
        BY <2>4, <3>2
      <4>2. refcount[Led] <= faults
        <5> SUFFICES ASSUME Led \notin stuck, refcount[Led] # 0 PROVE FALSE
          BY <1>3 DEF Slack
        <5>1. Effective(Led, override[Led], refcount'[Led]) = enabled[Led]
          BY <1>3, <1>4 DEF RailsFollow, Effective
        <5>2. enabled' = [enabled EXCEPT ![Led] = enabled[Led]]
          BY <1>2, <1>5, <5>1 DEF Follow
        <5> QED
          BY <4>1, <5>2 DEF TypeOK
      <4>3. refcount'[Led] <= Slack' + Held'
        BY <1>3, <1>4, <2>2, <3>2, <4>2 DEF Held
      <4> QED
        BY <1>1, <2>4, <4>1, <4>3 DEF Leaked, InCall, GivingUp, GivingUpR
    <3> QED
      BY <3>1, <3>2
  <2>7. TypeOK'
    <3>1. refcount'[Led] <= faults' + (IF requested' THEN 2 ELSE 1)
      <4>1. refcount'[Led] <= faults + 1 + Held'
        BY <2>2, <2>6 DEF Leaked
      <4>2. Held' = (IF requested' THEN 1 ELSE 0)
        BY DEF Held
      <4> QED
        BY <1>3, <1>4, <2>2, <4>1, <4>2
    <3> QED
      BY <1>2, <1>4, <2>1, <2>2, <2>4, <3>1 DEF TypeOK
  <2>8. Exclusive' /\ Known'
    BY <1>1, <2>2, <2>4 DEF Exclusive, Known, InCall, Asking, GivingUp, GivingUpR
  <2>9. Obeys'
    BY <1>1, <1>2, <2>2, <2>4 DEF Obeys, InCall, Asking, GivingUp, GivingUpR
  <2>10. Balanced'
    <3>1. hidLock' # None /\ (~skewed' => refcount'[Led] = 1)
      BY <1>1, <1>3, <1>4, <2>2
    <3>2. pc'[t] = "show" => Held' = 1
      BY <2>4 DEF Held
    <3> QED
      BY <1>1, <2>4, <3>1, <3>2 DEF Balanced, InCall, Asking, GivingUp, GivingUpR
  <2>11. Passed'
    <3>1. \A r \in Rails : Off(r) => Off(r)'
      BY <1>2, <1>5 DEF Follow, TypeOK, Effective, Off
    <3> QED
      BY <1>1, <1>2, <2>4, <3>1 DEF Passed, InCall, Asking, GivingUp, GivingUpR
  <2> QED
    BY <2>5, <2>6, <2>7, <2>8, <2>9, <2>10, <2>11
<1>6. CASE PinsFail(Led)
  <2>1. /\ enabled' = enabled /\ stuck' = stuck \union {Led} /\ faults' = faults + 1
        /\ faults' <= MaxFaults
    BY <1>3, <1>6 DEF PinsFail
  <2>2. /\ hidLock' = None /\ ledOk' = FALSE /\ skewed' = TRUE /\ requested' = requested
        /\ pc' = [pc EXCEPT ![t] = "idle"]
    <3>1. ~Follow(Led)
      <4> SUFFICES ASSUME Follow(Led) PROVE FALSE
        OBVIOUS
      <4>1. faults' = faults
        BY DEF Follow
      <4> QED
        BY <1>3, <2>1, <4>1
    <3> QED
      BY <3>1 DEF RailRequest, LedReturns
  <2>3. /\ pc' \in [Tasks -> Steps] /\ pc'[t] = "idle" /\ \A s \in Tasks \ {t} : pc'[s] = pc[s]
    BY <1>3, <2>2 DEF Steps
  <2>4. RailsFollow'
    BY <1>2, <1>4, <2>1 DEF RailsFollow, Effective
  <2>5. Leaked'
    <3>1. refcount[Led] <= faults
      <4> SUFFICES ASSUME Led \notin stuck, refcount[Led] # 0 PROVE FALSE
        BY <1>3 DEF Slack
      <4>1. Effective(Led, override[Led], refcount'[Led]) = enabled[Led]
        BY <1>3, <1>4 DEF RailsFollow, Effective
      <4> QED
        BY <1>2, <1>6, <4>1 DEF PinsFail
    <3>2. Slack' = faults' /\ Held' = 0 /\ refcount'[Led] <= faults'
      BY <1>1, <1>3, <1>4, <2>1, <2>2, <3>1 DEF Slack, Held
    <3>3. \A s \in Tasks : pc'[s] \notin {"release posted", "reboot posted"}
      BY <1>1, <2>3 DEF InCall, GivingUp, GivingUpR
    <3> QED
      <4>1. refcount'[Led] <= Slack' + Held'
        BY <1>3, <1>4, <2>1, <3>2
      <4> QED
        BY <3>3, <4>1 DEF Leaked
  <2>6. TypeOK'
    <3>1. refcount'[Led] <= faults' + (IF requested' THEN 2 ELSE 1)
      <4>1. refcount'[Led] <= Slack' + Held' /\ Slack' = faults' /\ Held' = 0
        <5>1. Held' = Held /\ Held = 0
          BY <1>1, <2>2 DEF Held
        <5>2. Slack' = faults'
          BY <1>3, <2>1 DEF Slack
        <5> QED
          BY <2>5, <5>1, <5>2 DEF Leaked
      <4> QED
        BY <1>3, <1>4, <2>1, <4>1
    <3> QED
      <4>1. faults' \in 0 .. MaxFaults
        BY <1>3, <2>1
      <4> QED
        BY <1>2, <1>3, <1>4, <2>1, <2>2, <2>3, <3>1, <4>1 DEF TypeOK
  <2>7. Exclusive' /\ Known'
    BY <1>1, <2>2, <2>3 DEF Exclusive, Known, InCall, Asking, GivingUp, GivingUpR
  <2>8. Obeys'
    BY <1>1, <1>2, <2>2, <2>3 DEF Obeys, InCall, Asking, GivingUp, GivingUpR
  <2>9. Balanced' /\ Passed'
    BY <1>1, <1>2, <2>1, <2>2, <2>3 DEF Balanced, Passed, Off
  <2> QED
    BY <2>4, <2>5, <2>6, <2>7, <2>8, <2>9
<1> QED
  BY <1>5, <1>6 DEF RailRequest

(* Giving it back (power_mgmt_service_rail_release).                         *)
LEMMA RailReleaseStep == ASSUME IInv, NEW t \in Tasks, RailRelease(t) PROVE IInv'
<1> USE LedPowerAssumption DEF LedPowerAssumption, IInv, rebootVars, GoTo
<1>1. /\ pc[t] \in {"release", "reboot release"} /\ hidLock = t /\ requested
      /\ \A s \in Tasks \ {t} : pc[s] \notin InCall
      /\ ~wanted /\ ~shining /\ (~skewed => refcount[Led] = 1)
  <2>1. pc[t] \in {"release", "reboot release"}
    BY DEF RailRelease
  <2>2. requested /\ ~wanted /\ ~shining
    BY <2>1 DEF Known, Obeys, GivingUp, GivingUpR
  <2>3. ~skewed => refcount[Led] = 1
    BY <2>1, <2>2 DEF Balanced, Held
  <2> QED
    BY <2>1, <2>2, <2>3, Alone DEF InCall, GivingUp, GivingUpR
<1>2. /\ UNCHANGED <<override, wanted, shining, rebootVars, overridden>>
      /\ refcount' = [refcount EXCEPT ![Led] = @ - 1] /\ refcount[Led] > 0
  BY DEF RailRelease
<1>3. /\ refcount \in [Rails -> Nat] /\ faults \in Nat /\ faults <= MaxFaults
      /\ pc \in [Tasks -> Steps] /\ requested \in BOOLEAN
      /\ wanted \in BOOLEAN /\ shining \in BOOLEAN
      /\ refcount[Led] <= Slack + 1 /\ Slack \in Nat /\ Slack <= faults + 1
  <2>1. Held = 1
    BY <1>1 DEF Held
  <2> QED
    <3>1. refcount[Led] <= Slack + 1 /\ Slack \in Nat /\ Slack <= faults + 1
      BY <2>1, Numbers DEF Leaked
    <3>2. /\ refcount \in [Rails -> Nat] /\ faults \in Nat /\ faults <= MaxFaults
          /\ pc \in [Tasks -> Steps] /\ requested \in BOOLEAN
          /\ wanted \in BOOLEAN /\ shining \in BOOLEAN
      BY Numbers DEF TypeOK
    <3> QED
      BY <3>1, <3>2
<1>4. /\ refcount' \in [Rails -> Nat] /\ refcount'[Led] = refcount[Led] - 1
      /\ \A r \in Rails \ {Led} : refcount'[r] = refcount[r]
  BY <1>2, <1>3
<1>5. CASE Follow(Led) /\ ~PinsFail(Led)
  <2>1. enabled' \in [Rails -> BOOLEAN]
    BY <1>5, FollowType
  <2>2. /\ faults' = faults /\ stuck' = stuck \ {Led} /\ Slack' = faults + 1 /\ Slack <= faults + 1
        /\ skewed' = skewed
    BY <1>3, <1>5 DEF RailRelease, Follow, Slack
  <2>3. \/ /\ pc' = [pc EXCEPT ![t] = "release posted"] \/ pc' = [pc EXCEPT ![t] = "reboot posted"]
           /\ UNCHANGED <<hidLock, ledOk, requested>>
        \/ /\ pc' = [pc EXCEPT ![t] = "callbacks"] \/ pc' = [pc EXCEPT ![t] = "idle"]
           /\ hidLock' = None /\ requested' = FALSE /\ ledOk' = TRUE
    BY <1>5 DEF RailRelease, LedReturns
  <2>4. /\ pc' \in [Tasks -> Steps]
        /\ \A s \in Tasks \ {t} : pc'[s] = pc[s]
    BY <1>3, <2>3 DEF Steps
  <2>5. \/ /\ pc'[t] \in {"release posted", "reboot posted"}
           /\ UNCHANGED <<hidLock, ledOk, requested>>
        \/ /\ pc'[t] \in {"callbacks", "idle"}
           /\ hidLock' = None /\ requested' = FALSE /\ ledOk' = TRUE
    BY <1>3, <2>3
  <2>6. RailsFollow'
    BY <1>2, <1>3, <1>4, <1>5, <2>1, <2>2 DEF Follow, TypeOK, RailsFollow, Effective
  <2>7. Leaked'
    <3>1. refcount'[Led] <= Slack' /\ Held' \in {0, 1}
      BY <1>3, <1>4, <2>2 DEF Slack, Held
    <3>2. refcount'[Led] <= Slack' + Held'
      BY <1>3, <1>4, <2>2, <3>1
    <3> QED
      BY <3>1, <3>2 DEF Leaked
  <2>8. TypeOK'
    <3>1. refcount'[Led] <= faults' + (IF requested' THEN 2 ELSE 1)
      BY <1>3, <1>4, <2>2 DEF Slack
    <3>2. /\ hidLock' \in Tasks \union {None} /\ requested' \in BOOLEAN /\ ledOk' \in BOOLEAN
      BY <1>1, <1>3, <2>5 DEF TypeOK
    <3> QED
      BY <1>2, <1>4, <2>1, <2>2, <2>4, <3>1, <3>2 DEF TypeOK
  <2>9. Exclusive' /\ Known'
    BY <1>1, <2>4, <2>5 DEF Exclusive, Known, InCall, Asking, GivingUp, GivingUpR
  <2>10. Obeys'
    <3>1. wanted' = FALSE /\ shining' = FALSE
      BY <1>1, <1>2, <1>3
    <3>2. CASE pc'[t] \in {"release posted", "reboot posted"}
      BY <1>1, <2>4, <2>5, <3>1, <3>2 DEF Obeys, InCall, Asking, GivingUp, GivingUpR
    <3>3. CASE pc'[t] \in {"callbacks", "idle"}
      <4>1. requested' = FALSE
        BY <2>5, <3>3
      <4> QED
        BY <1>1, <2>4, <3>1, <3>3, <4>1 DEF Obeys, InCall, Asking, GivingUp, GivingUpR
    <3> QED
      BY <2>5, <3>2, <3>3
  <2>11. Balanced'
    <3>1. ~skewed' => refcount'[Led] = 0
      <4>1. refcount[Led] = 1 => refcount'[Led] = 0
        BY <1>4
      <4> QED
        BY <1>1, <2>2, <4>1
    <3>2. hidLock' = None => Held' = 0
      BY <1>1, <2>5 DEF Held
    <3> QED
      <4>1. hidLock' = None => refcount[Led]' = Held' \/ skewed'
        BY <3>1, <3>2
      <4>2. pc'[t] \notin {"request", "show", "clear", "reboot clear", "release",
                          "reboot release", "request posted"}
        BY <2>5
      <4>3. \A s \in Tasks \ {t} : pc'[s] \notin InCall
        BY <1>1, <2>4
      <4> QED
        BY <3>1, <4>1, <4>2, <4>3 DEF Balanced, InCall, Asking, GivingUp, GivingUpR
  <2>12. Passed'
    <3>1. \A r \in Rails : Off(r) => Off(r)'
      BY <1>2, <1>5 DEF Follow, TypeOK, Effective, Off
    <3> QED
      BY <1>1, <1>2, <2>4, <2>5, <3>1 DEF Passed, InCall, Asking, GivingUp, GivingUpR
  <2> QED
    BY <2>6, <2>7, <2>8, <2>9, <2>10, <2>11, <2>12
<1>6. CASE PinsFail(Led)
  <2>1. /\ enabled' = enabled /\ stuck' = stuck \union {Led} /\ faults' = faults + 1
        /\ faults' <= MaxFaults
    BY <1>3, <1>6 DEF PinsFail
  <2>2. /\ hidLock' = None /\ ledOk' = FALSE /\ skewed' = TRUE /\ requested' = requested
        /\ pc' = [pc EXCEPT ![t] = "idle"]
    <3>1. ~Follow(Led)
      <4> SUFFICES ASSUME Follow(Led) PROVE FALSE
        OBVIOUS
      <4>1. faults' = faults
        BY DEF Follow
      <4> QED
        BY <1>3, <2>1, <4>1
    <3> QED
      BY <3>1 DEF RailRelease, LedReturns
  <2>3. /\ pc' \in [Tasks -> Steps] /\ pc'[t] = "idle" /\ \A s \in Tasks \ {t} : pc'[s] = pc[s]
    BY <1>3, <2>2 DEF Steps
  <2>4. RailsFollow'
    BY <1>2, <1>4, <2>1 DEF RailsFollow, Effective
  <2>5. Leaked'
    <3>1. Slack' = faults' /\ Slack <= faults' /\ Held' = 1
      <4>1. Slack' = faults' /\ Held' = 1
        <5>1. Held' = Held /\ Held = 1
          BY <1>1, <2>2 DEF Held
        <5>2. Slack' = faults'
          BY <1>3, <2>1 DEF Slack
        <5> QED
          BY <5>1, <5>2
      <4> QED
        BY <1>3, <2>1, <4>1
    <3>2. \A s \in Tasks : pc'[s] \notin {"release posted", "reboot posted"}
      BY <1>1, <2>3 DEF InCall, GivingUp, GivingUpR
    <3> QED
      <4>1. refcount'[Led] <= Slack' + Held'
        BY <1>3, <1>4, <2>1, <3>1
      <4> QED
        BY <3>2, <4>1 DEF Leaked
  <2>6. TypeOK'
    <3>1. refcount'[Led] <= faults' + (IF requested' THEN 2 ELSE 1)
      <4>1. requested' = TRUE
        BY <1>1, <1>3, <2>2
      <4> QED
        BY <1>3, <1>4, <2>1, <4>1
    <3> QED
      <4>1. faults' \in 0 .. MaxFaults
        BY <1>3, <2>1
      <4> QED
        BY <1>2, <1>3, <1>4, <2>1, <2>2, <2>3, <3>1, <4>1 DEF TypeOK
  <2>7. Exclusive' /\ Known'
    BY <1>1, <2>2, <2>3 DEF Exclusive, Known, InCall, Asking, GivingUp, GivingUpR
  <2>8. Obeys'
    BY <1>1, <1>2, <2>2, <2>3 DEF Obeys, InCall, Asking, GivingUp, GivingUpR
  <2>9. Balanced' /\ Passed'
    BY <1>1, <1>2, <2>1, <2>2, <2>3 DEF Balanced, Passed, Off
  <2> QED
    BY <2>4, <2>5, <2>6, <2>7, <2>8, <2>9
<1> QED
  BY <1>5, <1>6 DEF RailRelease

(* The event of a request is posted and the LED notes its reference.         *)
LEMMA RequestPostedStep == ASSUME IInv, NEW t \in Tasks, RequestPosted(t) PROVE IInv'
<1> USE LedPowerAssumption DEF LedPowerAssumption, IInv, railVars, ledVars, rebootVars, GoTo
<1>1. /\ pc[t] = "request posted" /\ hidLock = t /\ ~requested
      /\ \A s \in Tasks \ {t} : pc[s] \notin InCall
      /\ wanted /\ (~skewed => refcount[Led] = 1)
  BY Alone DEF RequestPosted, Known, Obeys, Balanced, InCall, Asking
<1>2. /\ UNCHANGED <<railVars, hidLock, wanted, shining, ledOk, rebootVars, skewed, overridden>>
      /\ requested' = TRUE
  BY DEF RequestPosted
<1>3. /\ pc' \in [Tasks -> Steps] /\ pc'[t] = "show"
      /\ \A s \in Tasks \ {t} : pc'[s] = pc[s]
  BY DEF RequestPosted, TypeOK, Steps
<1>4. RailsFollow'
  BY <1>2 DEF RailsFollow, Effective
<1>5. Leaked'
  <2>1. /\ refcount' = refcount /\ Slack' = Slack /\ Held' = 1 /\ Held = 0
        /\ refcount[Led] <= Slack + Held
    BY <1>1, <1>2 DEF Slack, Held, Leaked
  <2>2. refcount'[Led] <= Slack' + Held'
    BY <2>1, Numbers
  <2>3. \A s \in Tasks : pc'[s] \notin {"release posted", "reboot posted"}
    BY <1>1, <1>3 DEF InCall, GivingUp, GivingUpR
  <2> QED
    BY <2>2, <2>3 DEF Leaked
<1>6. TypeOK'
  <2>1. refcount[Led] <= faults + (IF requested THEN 2 ELSE 1) /\ faults \in Nat
    BY DEF TypeOK
  <2>2. refcount'[Led] <= faults' + (IF requested' THEN 2 ELSE 1)
    <3>1. refcount[Led] <= faults + 1 /\ requested' = TRUE
      BY <1>1, <1>2, <2>1
    <3>2. refcount[Led] <= faults + 2 /\ refcount' = refcount /\ faults' = faults
      BY <1>2, <3>1, Numbers
    <3> QED
      BY <3>1, <3>2
  <2> QED
    BY <1>2, <1>3, <2>2 DEF TypeOK
<1>7. Exclusive' /\ Known'
  BY <1>1, <1>2, <1>3 DEF Exclusive, Known, InCall, Asking, GivingUp, GivingUpR
<1>8. Obeys' /\ Balanced'
  BY <1>1, <1>2, <1>3 DEF Obeys, Balanced, Held, InCall, Asking, GivingUp, GivingUpR
<1>9. Passed'
  BY <1>1, <1>2, <1>3 DEF Passed, Off
<1> QED
  BY <1>4, <1>5, <1>6, <1>7, <1>8, <1>9

(* A reboot gets past the callbacks after the LED's, or gives up.            *)
LEMMA LaterCallbacksStep == ASSUME IInv, NEW t \in Tasks, LaterCallbacks(t) PROVE IInv'
<1> USE LedPowerAssumption DEF LedPowerAssumption, IInv, railVars, ledVars, rebootVars, GoTo
<1>1. /\ pc[t] = "callbacks" /\ at[t] = 1
      /\ UNCHANGED <<railVars, ledVars, rebootVars, skewed, overridden>>
  BY DEF LaterCallbacks, Passed
<1>2. pc' = [pc EXCEPT ![t] = "rails"] \/ pc' = [pc EXCEPT ![t] = "idle"]
  BY DEF LaterCallbacks
<1>3. TypeOK' /\ RailsFollow'
  BY <1>1, <1>2 DEF TypeOK, RailsFollow, Effective, Steps
<1>4. Exclusive' /\ Known' /\ Obeys'
  <2>1. Exclusive' /\ Known'
    BY <1>1, <1>2 DEF TypeOK, Exclusive, Known, InCall, Asking, GivingUp, GivingUpR
  <2>2. Obeys'
    BY <1>1, <1>2 DEF TypeOK, Obeys, InCall, Asking, GivingUp, GivingUpR
  <2> QED
    BY <2>1, <2>2
<1>5. Leaked' /\ Balanced'
  BY <1>1, <1>2 DEF TypeOK, Leaked, Slack, Balanced, Held, InCall, Asking, GivingUp, GivingUpR
<1>6. Passed'
  <2>1. at' = at /\ \A s \in Tasks \ {t} : pc'[s] = pc[s]
    BY <1>1, <1>2 DEF TypeOK
  <2>2. pc'[t] = "idle" \/ pc'[t] = "rails"
    BY <1>2 DEF TypeOK
  <2>3. \A r \in Rails : ~(r < at[t])
    BY <1>1 DEF Rails
  <2> QED
    BY <1>1, <2>1, <2>2, <2>3 DEF Passed, Off
<1> QED
  BY <1>3, <1>4, <1>5, <1>6

(* Everything starts anew.                                                   *)
LEMMA RestartStep == ASSUME Restart PROVE IInv'
<1> USE LedPowerAssumption DEF LedPowerAssumption, Restart
<1>1. TypeOK'
  <2>1. /\ wanted' \in BOOLEAN /\ shining' \in BOOLEAN /\ requested' \in BOOLEAN
        /\ ledOk' \in BOOLEAN /\ pending' \in BOOLEAN /\ skewed' \in BOOLEAN
    BY Zenon
  <2>2. enabled' \in [Rails -> BOOLEAN] /\ failed' \in [Tasks -> BOOLEAN]
    OBVIOUS
  <2>3. 1 \in Rails
    BY DEF Rails
  <2>4. faults' \in 0 .. MaxFaults /\ refcount'[Led] <= faults' + (IF requested' THEN 2 ELSE 1)
    OBVIOUS
  <2> QED
    BY <2>1, <2>2, <2>3, <2>4 DEF TypeOK, Steps
<1>2. RailsFollow'
  <2>1. \A r \in Rails : enabled'[r] = FALSE /\ override'[r] = "auto" /\ refcount'[r] = 0
    OBVIOUS
  <2>2. \A r \in Rails : Effective(r, "auto", 0) = FALSE
    BY DEF Effective
  <2> QED
    BY <2>1, <2>2 DEF RailsFollow
<1>3. Exclusive' /\ Known' /\ Obeys'
  BY DEF Exclusive, Known, Obeys, InCall, Asking, GivingUp, GivingUpR
<1>4. Leaked' /\ Balanced'
  BY DEF Leaked, Slack, Balanced, Held, Asking, GivingUp, GivingUpR
<1>5. Passed'
  BY DEF Passed
<1> QED
  BY <1>1, <1>2, <1>3, <1>4, <1>5 DEF IInv

(* A reboot leaves the restart to the main loop, or gives up on an error.    *)
LEMMA ScheduleStep == ASSUME IInv, NEW t \in Tasks, Schedule(t) PROVE IInv'
<1> USE LedPowerAssumption DEF LedPowerAssumption, IInv, railVars, ledVars, rebootVars, GoTo,
      Schedule
<1>1. TypeOK'
  <2>1. pending' \in BOOLEAN
    BY DEF TypeOK
  <2>2. pc' \in [Tasks -> Steps]
    BY DEF TypeOK, Steps
  <2>3. 1 \in Rails
    BY DEF Rails
  <2> QED
    BY <2>1, <2>2, <2>3 DEF TypeOK
<1>2. RailsFollow'
  BY DEF TypeOK, RailsFollow, Effective
<1>3. Exclusive' /\ Known' /\ Obeys'
  BY DEF TypeOK, Exclusive, Known, Obeys, Steps, InCall, Asking, GivingUp, GivingUpR
<1>4. Leaked' /\ Balanced'
  BY DEF TypeOK, Leaked, Slack, Balanced, Held, InCall, Asking, GivingUp, GivingUpR
<1>5. Passed'
  BY DEF TypeOK, Passed, Off, Steps
<1> QED
  BY <1>1, <1>2, <1>3, <1>4, <1>5

(* A reboot forces rails off up to the next one whose event is to be posted: *)
(* power_mgmt_service_set_all_rails_off under the lock.                      *)
LEMMA AllRailsOffStep == ASSUME IInv, NEW t \in Tasks, AllRailsOff(t) PROVE IInv'
<1> USE LedPowerAssumption DEF LedPowerAssumption, IInv, GoTo
<1>1. /\ pc[t] = "rails" /\ pc[t] \notin InCall
      /\ at \in [Tasks -> Rails] /\ pc \in [Tasks -> Steps] /\ failed \in [Tasks -> BOOLEAN]
      /\ enabled \in [Rails -> BOOLEAN] /\ refcount \in [Rails -> Nat]
  BY DEF AllRailsOff, ForceRails, TypeOK, InCall, Asking, GivingUp, GivingUpR
<1>2. PICK r \in at[t] .. NumRails, switched \in BOOLEAN :
       LET passed == at[t] .. r
           broken == {s \in passed : enabled[s] /\ ~(switched /\ s = r)}
       IN  /\ IF switched THEN enabled[r] ELSE r = NumRails
           /\ override' = [s \in Rails |-> IF s \in passed THEN "off" ELSE override[s]]
           /\ refcount' = [s \in Rails |-> IF s \in passed THEN 0 ELSE refcount[s]]
           /\ enabled' = [s \in Rails |-> enabled[s] /\ ~(switched /\ s = r)]
           /\ stuck' = (stuck \ passed) \union broken
           /\ skewed' = (skewed \/ (Led \in passed /\ refcount[Led] > 0))
           /\ overridden' = overridden \ (passed \ broken)
           /\ at' = [at EXCEPT ![t] = r]
           /\ failed' = [failed EXCEPT ![t] = @ \/ broken # {}]
           /\ pc' = [pc EXCEPT ![t] = IF switched THEN "rail posted" ELSE "schedule"]
  BY DEF AllRailsOff, ForceRails
<1> DEFINE passed == at[t] .. r
           broken == {s \in passed : enabled[s] /\ ~(switched /\ s = r)}
<1>3. UNCHANGED <<ledVars, faults, pending>>
  BY DEF AllRailsOff, ForceRails
<1>4. /\ r \in Rails /\ at[t] \in Rails /\ r \in passed
      /\ \A s \in Rails : s \in passed <=> at[t] <= s /\ s <= r
      /\ passed \subseteq Rails
  <2>1. at[t] \in Rails
    BY <1>1
  <2>2. at[t] \in Int /\ NumRails \in Int /\ 1 <= at[t]
    BY <2>1 DEF Rails
  <2>3. r \in Int /\ at[t] <= r /\ r <= NumRails
    <3>1. r \in at[t] .. NumRails
      BY <1>2
    <3> QED
      BY <2>2, <3>1
  <2> QED
    BY <2>1, <2>2, <2>3 DEF Rails
<1>5. /\ \A s \in Rails : /\ override'[s] = (IF s \in passed THEN "off" ELSE override[s])
                          /\ refcount'[s] = (IF s \in passed THEN 0 ELSE refcount[s])
      /\ \A s \in Rails : enabled'[s] = (enabled[s] /\ ~(switched /\ s = r))
      /\ stuck' = (stuck \ passed) \union broken
      /\ overridden' = overridden \ (passed \ broken)
      /\ switched \/ r = NumRails
  BY <1>2
<1>6. /\ pc' \in [Tasks -> Steps] /\ \A s \in Tasks \ {t} : pc'[s] = pc[s]
      /\ pc'[t] = (IF switched THEN "rail posted" ELSE "schedule")
      /\ at' \in [Tasks -> Rails] /\ at'[t] = r /\ \A s \in Tasks \ {t} : at'[s] = at[s]
      /\ failed' \in [Tasks -> BOOLEAN] /\ failed'[t] = (failed[t] \/ broken # {})
      /\ \A s \in Tasks \ {t} : failed'[s] = failed[s]
  <2>1. pc' = [pc EXCEPT ![t] = IF switched THEN "rail posted" ELSE "schedule"]
    BY <1>2
  <2>2. at' = [at EXCEPT ![t] = r]
    BY <1>2
  <2>3. failed' = [failed EXCEPT ![t] = failed[t] \/ broken # {}]
    BY <1>2
  <2>4. /\ pc' \in [Tasks -> Steps] /\ \A s \in Tasks \ {t} : pc'[s] = pc[s]
        /\ pc'[t] = (IF switched THEN "rail posted" ELSE "schedule")
    BY <1>1, <2>1 DEF Steps
  <2>5. at' \in [Tasks -> Rails] /\ at'[t] = r /\ \A s \in Tasks \ {t} : at'[s] = at[s]
    BY <1>1, <1>4, <2>2
  <2>6. /\ failed' \in [Tasks -> BOOLEAN] /\ failed'[t] = (failed[t] \/ broken # {})
        /\ \A s \in Tasks \ {t} : failed'[s] = failed[s]
    BY <1>1, <2>3
  <2> QED
    BY <2>4, <2>5, <2>6
<1>7. /\ skewed' = (skewed \/ (Led \in passed /\ refcount[Led] > 0))
      /\ refcount' \in [Rails -> Nat] /\ enabled' \in [Rails -> BOOLEAN]
      /\ override' \in [Rails -> {"auto", "on", "off"}]
  <2>1. /\ skewed' = (skewed \/ (Led \in passed /\ refcount[Led] > 0))
        /\ enabled' = [s \in Rails |-> enabled[s] /\ ~(switched /\ s = r)]
        /\ override' = [s \in Rails |-> IF s \in passed THEN "off" ELSE override[s]]
        /\ refcount' = [s \in Rails |-> IF s \in passed THEN 0 ELSE refcount[s]]
    BY <1>2
  <2>2. refcount' \in [Rails -> Nat]
    BY <1>1, <2>1
  <2>3. override' \in [Rails -> {"auto", "on", "off"}]
    BY <2>1 DEF TypeOK
  <2> QED
    BY <2>1, <2>2, <2>3
<1> HIDE DEF passed, broken
<1>8. /\ refcount'[Led] = 0 \/ (refcount'[Led] = refcount[Led] /\ Led \notin passed)
      /\ Led \notin passed => (Led \in stuck' <=> Led \in stuck)
  BY <1>5 DEF broken
<1>9. Leaked'
  <2>1. faults \in Nat /\ Slack' \in Nat /\ Held' = Held /\ Held \in Nat
    BY <1>3 DEF TypeOK, Slack, Held, ledVars
  <2>2. CASE refcount'[Led] = 0
    <3>1. \A m, n \in Nat : 0 <= m /\ 0 <= m + n
      OBVIOUS
    <3>2. Held' \in Nat
      BY <2>1
    <3>3. 0 <= Slack' /\ 0 <= Slack' + Held'
      BY <2>1, <3>1, <3>2
    <3> QED
      BY <2>2, <3>3 DEF Leaked
  <2>3. CASE refcount'[Led] = refcount[Led] /\ Led \notin passed
    <3>1. Slack' = Slack
      BY <1>3, <1>8, <2>3 DEF Slack
    <3> QED
      BY <1>1, <1>6, <2>1, <2>3, <3>1 DEF Leaked
  <2> QED
    BY <1>8, <2>2, <2>3
<1>10. TypeOK'
  <2>1. \A s \in Rails \ {Led} : refcount'[s] = 0
    BY <1>5 DEF TypeOK
  <2>2. refcount'[Led] <= faults' + (IF requested' THEN 2 ELSE 1)
    <3>1. refcount[Led] <= faults + (IF requested THEN 2 ELSE 1) /\ faults \in Nat
      BY DEF TypeOK
    <3> QED
      BY <1>3, <1>8, <3>1 DEF ledVars
  <2>3. stuck' \subseteq Rails /\ overridden' \subseteq Rails
    BY <1>4, <1>5 DEF TypeOK, broken
  <2>4. skewed' \in BOOLEAN
    BY <1>7 DEF TypeOK
  <2> QED
    BY <1>3, <1>6, <1>7, <2>1, <2>2, <2>3, <2>4 DEF TypeOK, ledVars
<1>11. RailsFollow'
  <2> SUFFICES ASSUME NEW s \in Rails, s \notin stuck'
               PROVE  enabled'[s] = Effective(s, override'[s], refcount'[s])
    BY DEF RailsFollow
  <2>1. CASE s \in passed
    <3>1. enabled'[s] = FALSE
      BY <1>5, <2>1 DEF broken
    <3>2. Effective(s, override'[s], refcount'[s]) = FALSE
      BY <1>5, <2>1 DEF Effective
    <3> QED
      BY <3>1, <3>2
  <2>2. CASE s \notin passed
    <3>1. enabled'[s] = enabled[s] /\ override'[s] = override[s] /\ refcount'[s] = refcount[s]
      BY <1>1, <1>4, <1>5, <2>2
    <3>2. s \notin stuck
      BY <1>5, <2>2
    <3> QED
      BY <3>1, <3>2 DEF RailsFollow
  <2> QED
    BY <2>1, <2>2
<1>12. Exclusive' /\ Known'
  BY <1>1, <1>3, <1>6 DEF Exclusive, Known, InCall, Asking, GivingUp, GivingUpR, ledVars
<1>13. Obeys'
  BY <1>1, <1>3, <1>6 DEF Obeys, InCall, Asking, GivingUp, GivingUpR, ledVars
<1>14. Balanced'
  <2> SUFFICES ASSUME ~skewed' PROVE Balanced'
    BY DEF Balanced
  <2>1. ~skewed /\ refcount'[Led] = refcount[Led]
    <3>1. ~skewed /\ ~(Led \in passed /\ refcount[Led] > 0)
      BY <1>7
    <3>2. CASE Led \in passed
      <4>1. refcount[Led] = 0 /\ refcount'[Led] = 0
        BY <1>1, <1>5, <3>1, <3>2
      <4> QED
        BY <3>1, <4>1
    <3>3. CASE Led \notin passed
      BY <1>5, <3>1, <3>3
    <3> QED
      BY <3>2, <3>3
  <2> QED
    BY <1>3, <1>6, <2>1 DEF Balanced, Held, ledVars
<1>15. Passed'
  <2>1. \A s \in Rails : Off(s) => Off(s)'
    BY <1>1, <1>5 DEF Off, broken
  <2>2. broken = {} => \A s \in passed : Off(s)'
    BY <1>1, <1>4, <1>5 DEF Off, broken
  <2>3. ~failed'[t] => \A s \in Rails : s <= r => Off(s)'
    <3>1. ~failed'[t] => broken = {} /\ ~failed[t]
      BY <1>6
    <3>2. ~failed[t] => \A s \in Rails : s < at[t] => Off(s)
      BY <1>1 DEF Passed
    <3>3. \A s \in Rails : s <= r => s < at[t] \/ s \in passed
      BY <1>4 DEF Rails
    <3> QED
      BY <2>1, <2>2, <3>1, <3>2, <3>3
  <2>4. ~failed'[t] /\ pc'[t] = "schedule" => \A s \in Rails : Off(s)'
    <3>1. pc'[t] = "schedule" => r = NumRails
      BY <1>5, <1>6
    <3>2. \A s \in Rails : s <= NumRails
      BY DEF Rails
    <3> QED
      BY <2>3, <3>1, <3>2
  <2> QED
    BY <1>3, <1>6, <2>1, <2>3, <2>4 DEF Passed
<1> QED
  BY <1>9, <1>10, <1>11, <1>12, <1>13, <1>14, <1>15

(* A reboot goes on with the rail after the one whose event was posted.      *)
LEMMA RailPostedStep == ASSUME IInv, NEW t \in Tasks, RailPosted(t) PROVE IInv'
<1> USE LedPowerAssumption DEF LedPowerAssumption, IInv, railVars, ledVars, rebootVars, GoTo
<1>1. /\ pc[t] = "rail posted" /\ pc[t] \notin InCall
      /\ UNCHANGED <<railVars, ledVars, pending, skewed, overridden>>
  BY DEF RailPosted, InCall, Asking, GivingUp, GivingUpR
<1>2. /\ at \in [Tasks -> Rails] /\ pc \in [Tasks -> Steps]
      /\ at[t] \in Nat \ {0} /\ at[t] <= NumRails
  BY DEF TypeOK, Rails
<1>3. \/ /\ at[t] < NumRails
         /\ pc' = [pc EXCEPT ![t] = "rails"] /\ at' = [at EXCEPT ![t] = at[t] + 1]
      \/ /\ at[t] = NumRails
         /\ pc' = [pc EXCEPT ![t] = "schedule"] /\ at' = at
  <2>1. CASE at[t] < NumRails
    BY <2>1 DEF RailPosted
  <2>2. CASE ~(at[t] < NumRails)
    <3>1. at[t] = NumRails
      BY <1>2, <2>2
    <3> QED
      BY <2>2, <3>1 DEF RailPosted
  <2> QED
    BY <2>1, <2>2
<1>4. /\ pc' \in [Tasks -> Steps] /\ \A s \in Tasks \ {t} : pc'[s] = pc[s] /\ at'[s] = at[s]
      /\ pc'[t] \in {"rails", "schedule"}
  BY <1>2, <1>3 DEF Steps
<1>5. TypeOK'
  <2>1. at[t] < NumRails => at[t] + 1 \in Rails
    BY <1>2 DEF Rails
  <2>2. at' \in [Tasks -> Rails]
    BY <1>2, <1>3, <2>1
  <2>3. failed' \in [Tasks -> BOOLEAN]
    BY DEF RailPosted, TypeOK
  <2> QED
    BY <1>1, <1>4, <2>2, <2>3 DEF TypeOK
<1>6. RailsFollow'
  BY <1>1 DEF RailsFollow, Effective
<1>7. Exclusive' /\ Known'
  BY <1>1, <1>4 DEF Exclusive, Known, InCall, Asking, GivingUp, GivingUpR
<1>8. Leaked' /\ Obeys' /\ Balanced'
  BY <1>1, <1>4 DEF Leaked, Slack, Obeys, Balanced, Held, InCall, Asking, GivingUp, GivingUpR
<1>9. Passed'
  <2>1. ~failed'[t] => \A r \in Rails : r <= at[t] => Off(r)'
    <3>1. failed' = [failed EXCEPT ![t] = TRUE] \/ failed' = [failed EXCEPT ![t] = failed[t]]
      BY DEF RailPosted, TypeOK
    <3>2. ~failed'[t] => ~failed[t]
      BY <3>1 DEF TypeOK
    <3> QED
      BY <1>1, <3>2 DEF Passed, Off
  <2>2. pc'[t] = "rails" /\ ~failed'[t] => \A r \in Rails : r < at'[t] => Off(r)'
    <3>1. pc'[t] = "rails" => at'[t] = at[t] + 1
      BY <1>2, <1>3
    <3>2. \A r \in Rails : r < at[t] + 1 => r <= at[t]
      BY <1>2 DEF Rails
    <3> QED
      BY <2>1, <3>1, <3>2
  <2>3. pc'[t] = "schedule" /\ ~failed'[t] => \A r \in Rails : Off(r)'
    <3>1. pc'[t] = "schedule" => at[t] = NumRails
      BY <1>2, <1>3
    <3>2. \A r \in Rails : r <= NumRails
      BY DEF Rails
    <3> QED
      BY <2>1, <3>1, <3>2
  <2>4. \A s \in Tasks \ {t} : failed'[s] = failed[s]
    BY DEF RailPosted, TypeOK
  <2> QED
    BY <1>1, <1>4, <2>2, <2>3, <2>4 DEF Passed, Off
<1> QED
  BY <1>5, <1>6, <1>7, <1>8, <1>9

(* The LED strip is cleared; the reference goes only if it was noted.        *)
LEMMA ClearStep == ASSUME IInv, NEW t \in Tasks, Clear(t) PROVE IInv'
<1> USE LedPowerAssumption DEF LedPowerAssumption, IInv, railVars, ledVars, rebootVars, GoTo
<1>1. /\ pc[t] \in {"clear", "reboot clear"} /\ hidLock = t
      /\ \A s \in Tasks \ {t} : pc[s] \notin InCall
  BY Alone DEF Clear, InCall, GivingUp, GivingUpR
<1>2. ~wanted /\ (~skewed => refcount[Led] = Held)
  BY <1>1 DEF Obeys, Balanced, GivingUp, GivingUpR
<1>3. /\ UNCHANGED <<railVars, wanted, requested, rebootVars, skewed, overridden>>
      /\ shining' = FALSE
  BY DEF Clear
<1>4. pc' \in [Tasks -> Steps] /\ \A s \in Tasks \ {t} : pc'[s] = pc[s]
  BY DEF Clear, LedReturns, TypeOK, Steps
<1>5. \/ requested /\ pc'[t] \in {"release", "reboot release"} /\ UNCHANGED <<hidLock, ledOk>>
      \/ ~requested /\ pc'[t] \in {"idle", "callbacks"} /\ hidLock' = None /\ ledOk' = TRUE
  BY DEF Clear, LedReturns, TypeOK
<1>6. TypeOK'
  BY <1>1, <1>3, <1>4, <1>5 DEF TypeOK
<1>7. RailsFollow'
  BY <1>3 DEF RailsFollow, Effective
<1>8. Exclusive' /\ Known'
  BY <1>1, <1>3, <1>4, <1>5 DEF Exclusive, Known, InCall, Asking, GivingUp, GivingUpR
<1>9. Obeys'
  <2>1. wanted' = FALSE /\ (~requested => requested' = FALSE)
    BY <1>2, <1>3 DEF TypeOK
  <2> QED
    BY <1>1, <1>3, <1>4, <1>5, <2>1 DEF Obeys, InCall, Asking, GivingUp, GivingUpR
<1>10. Leaked' /\ Balanced'
  BY <1>1, <1>2, <1>3, <1>4, <1>5
  DEF Leaked, Slack, Balanced, Held, InCall, Asking, GivingUp, GivingUpR
<1>11. Passed'
  BY <1>1, <1>3, <1>4, <1>5 DEF Passed, Off
<1> QED
  BY <1>6, <1>7, <1>8, <1>9, <1>10, <1>11

(* A call of the LED begins (hid_service_led_set_rgb and the like).          *)
LEMMA SetLedStep == ASSUME IInv, NEW t \in Tasks, NEW lit \in BOOLEAN, SetLed(t, lit) PROVE IInv'
<1> USE LedPowerAssumption DEF LedPowerAssumption, IInv, railVars, ledVars, rebootVars, GoTo,
      SetLed, LedCall
<1>1. RailsFollow' /\ UNCHANGED railVars
  BY DEF RailsFollow, Effective
<1>2. TypeOK'
  BY DEF TypeOK, Steps
<1>3. Exclusive' /\ Known'
  BY DEF TypeOK, Known, Exclusive, InCall, Asking, GivingUp, GivingUpR
<1>4. Leaked'
  BY DEF TypeOK, Leaked, Slack, Held
<1>5. Obeys'
  BY DEF TypeOK, Known, Exclusive, Obeys, InCall, Asking, GivingUp, GivingUpR
<1>6. Balanced'
  BY DEF TypeOK, Known, Exclusive, Balanced, Held, InCall, Asking, GivingUp, GivingUpR
<1>7. Passed'
  BY DEF TypeOK, Passed, Off
<1> QED
  BY <1>1, <1>2, <1>3, <1>4, <1>5, <1>6, <1>7

(* So does a reboot's.                                                       *)
LEMMA LedOffStep == ASSUME IInv, NEW t \in Tasks, LedOff(t) PROVE IInv'
<1> USE LedPowerAssumption DEF LedPowerAssumption, IInv, railVars, ledVars, rebootVars, GoTo,
      LedOff, LedCall
<1>1. RailsFollow' /\ UNCHANGED railVars
  BY DEF RailsFollow, Effective
<1>2. TypeOK'
  BY DEF TypeOK, Steps
<1>3. Exclusive' /\ Known'
  BY DEF TypeOK, Known, Exclusive, InCall, Asking, GivingUp, GivingUpR
<1>4. Leaked'
  BY DEF TypeOK, Leaked, Slack, Held
<1>5. Obeys'
  BY DEF TypeOK, Known, Exclusive, Obeys, InCall, Asking, GivingUp, GivingUpR
<1>6. Balanced'
  BY DEF TypeOK, Known, Exclusive, Balanced, Held, InCall, Asking, GivingUp, GivingUpR
<1>7. Passed'
  BY DEF TypeOK, Passed, Off
<1> QED
  BY <1>1, <1>2, <1>3, <1>4, <1>5, <1>6, <1>7

(* The LED strip is lit or refuses, and the call returns.                    *)
LEMMA ShowStep == ASSUME IInv, NEW t \in Tasks, Show(t) PROVE IInv'
<1> USE LedPowerAssumption DEF LedPowerAssumption, IInv, railVars, ledVars, rebootVars, GoTo
<1>1. /\ pc[t] = "show" /\ hidLock = t /\ requested /\ wanted
      /\ \A s \in Tasks \ {t} : pc[s] \notin InCall
      /\ ~skewed => refcount[Led] = Held
  BY Alone DEF Show, Known, Obeys, Balanced, InCall, Asking
<1>2. /\ UNCHANGED <<railVars, wanted, requested, rebootVars, skewed, overridden>>
      /\ hidLock' = None
      /\ \/ shining' = TRUE /\ ledOk' = TRUE
         \/ shining' \in {shining, TRUE} /\ ledOk' = FALSE
  BY DEF Show, LedReturns
<1>3. pc' = [pc EXCEPT ![t] = "idle"]
  BY <1>1 DEF Show, LedReturns, Rebooting
<1>4. /\ pc' \in [Tasks -> Steps] /\ pc'[t] = "idle" /\ \A s \in Tasks \ {t} : pc'[s] = pc[s]
  BY <1>3 DEF TypeOK, Steps
<1>5. TypeOK'
  BY <1>2, <1>4 DEF TypeOK
<1>6. RailsFollow'
  BY <1>2 DEF RailsFollow, Effective
<1>7. Exclusive' /\ Known'
  BY <1>1, <1>2, <1>4 DEF Exclusive, Known, InCall, Asking, GivingUp, GivingUpR
<1>8. Leaked'
  BY <1>1, <1>2, <1>4 DEF Leaked, Slack, Held
<1>9. Obeys'
  <2>1. wanted' = TRUE /\ requested' = TRUE
    BY <1>1, <1>2 DEF TypeOK
  <2> QED
    BY <1>1, <1>2, <1>4, <2>1 DEF Obeys, InCall, Asking, GivingUp, GivingUpR
<1>10. Balanced'
  BY <1>1, <1>2, <1>4 DEF Balanced, Held, InCall, Asking, GivingUp, GivingUpR
<1>11. Passed'
  BY <1>1, <1>2, <1>4 DEF Passed, Off
<1> QED
  BY <1>5, <1>6, <1>7, <1>8, <1>9, <1>10, <1>11

(* The LED strip cannot be cleared and the call returns.                     *)
LEMMA ClearFailsStep == ASSUME IInv, NEW t \in Tasks, ClearFails(t) PROVE IInv'
<1> USE LedPowerAssumption DEF LedPowerAssumption, IInv, railVars, ledVars, rebootVars, GoTo,
      ClearFails, LedReturns, Rebooting
<1>1. RailsFollow' /\ UNCHANGED railVars
  BY DEF RailsFollow, Effective
<1>2. TypeOK'
  BY DEF TypeOK, Steps
<1>3. Exclusive' /\ Known'
  BY DEF TypeOK, Known, Exclusive, InCall, Asking, GivingUp, GivingUpR
<1>4. Leaked'
  BY DEF TypeOK, Leaked, Slack, Held
<1>5. Obeys'
  BY DEF TypeOK, Known, Exclusive, Obeys, InCall, Asking, GivingUp, GivingUpR
<1>6. Balanced'
  BY DEF TypeOK, Known, Exclusive, Balanced, Held, InCall, Asking, GivingUp, GivingUpR
<1>7. Passed'
  BY DEF TypeOK, Passed, Off
<1> QED
  BY <1>1, <1>2, <1>3, <1>4, <1>5, <1>6, <1>7

(* There is no reference to give back and the call returns.                  *)
LEMMA UnderflowStep == ASSUME IInv, NEW t \in Tasks, Underflow(t) PROVE IInv'
<1> USE LedPowerAssumption DEF LedPowerAssumption, IInv, railVars, ledVars, rebootVars, GoTo,
      Underflow, LedReturns, Rebooting
<1>1. RailsFollow' /\ UNCHANGED railVars
  BY DEF RailsFollow, Effective
<1>2. TypeOK'
  BY DEF TypeOK, Steps
<1>3. Exclusive' /\ Known'
  BY DEF TypeOK, Known, Exclusive, InCall, Asking, GivingUp, GivingUpR
<1>4. Leaked'
  BY DEF TypeOK, Leaked, Slack, Held
<1>5. Obeys'
  BY DEF TypeOK, Known, Exclusive, Obeys, InCall, Asking, GivingUp, GivingUpR
<1>6. Balanced'
  BY DEF TypeOK, Known, Exclusive, Balanced, Held, InCall, Asking, GivingUp, GivingUpR
<1>7. Passed'
  BY DEF TypeOK, Passed, Off
<1> QED
  BY <1>1, <1>2, <1>3, <1>4, <1>5, <1>6, <1>7

(* The event of a release is posted and the LED forgets its reference.       *)
LEMMA ReleasePostedStep == ASSUME IInv, NEW t \in Tasks, ReleasePosted(t) PROVE IInv'
<1> USE LedPowerAssumption DEF LedPowerAssumption, railVars, ledVars, rebootVars, GoTo
<1>1. /\ pc[t] \in {"release posted", "reboot posted"} /\ hidLock = t
      /\ \A s \in Tasks \ {t} : pc[s] \notin InCall
      /\ ~wanted /\ ~shining /\ refcount[Led] <= Slack /\ (~skewed => refcount[Led] = 0)
  BY Alone DEF IInv, ReleasePosted, Obeys, Leaked, Balanced, InCall, GivingUp, GivingUpR
<1>2. /\ UNCHANGED <<railVars, wanted, shining, rebootVars, skewed, overridden>>
      /\ hidLock' = None /\ requested' = FALSE /\ ledOk' = TRUE
  BY DEF ReleasePosted, LedReturns
<1>3. /\ pc' \in [Tasks -> Steps] /\ pc'[t] \in {"callbacks", "idle"}
      /\ \A s \in Tasks \ {t} : pc'[s] = pc[s]
  BY DEF IInv, ReleasePosted, LedReturns, TypeOK, Steps
<1>4. RailsFollow'
  BY <1>2 DEF IInv, RailsFollow, Effective
<1>5. refcount'[Led] <= Slack' /\ refcount'[Led] <= Slack' + Held' /\ refcount'[Led] <= faults' + 1
  <2>1. \A n, m, f \in Nat : n <= m /\ m <= f + 1 => n <= m + 0 /\ n <= f + 1
    OBVIOUS
  <2>2. refcount' = refcount /\ Slack' = Slack /\ faults' = faults /\ Held' = 0
    BY <1>2 DEF Slack, Held
  <2>3. refcount[Led] <= Slack + 0 /\ refcount[Led] <= faults + 1
    BY <1>1, <2>1, Numbers
  <2> QED
    BY <1>1, <2>2, <2>3
<1>6. Leaked'
  BY <1>5 DEF Leaked
<1>7. TypeOK'
  <2>1. refcount'[Led] <= faults' + (IF requested' THEN 2 ELSE 1)
    BY <1>2, <1>5
  <2> QED
    BY <1>2, <1>3, <2>1 DEF IInv, TypeOK
<1>8. Exclusive' /\ Known'
  BY <1>1, <1>2, <1>3 DEF IInv, Exclusive, Known, InCall, Asking, GivingUp, GivingUpR
<1>9. Obeys'
  <2>1. wanted' = FALSE /\ shining' = FALSE
    BY <1>1, <1>2 DEF IInv, TypeOK
  <2> QED
    BY <1>1, <1>2, <1>3, <2>1 DEF IInv, Obeys, InCall, Asking, GivingUp, GivingUpR
<1>10. Balanced'
  BY <1>1, <1>2, <1>3 DEF IInv, Balanced, Held, InCall, Asking, GivingUp, GivingUpR
<1>11. Passed'
  BY <1>1, <1>2, <1>3 DEF IInv, Passed, Off
<1> QED
  BY <1>4, <1>6, <1>7, <1>8, <1>9, <1>10, <1>11 DEF IInv

(* The event is lost and the call returns an error.                          *)
LEMMA LedPostFailsStep == ASSUME IInv, NEW t \in Tasks, LedPostFails(t) PROVE IInv'
<1> USE LedPowerAssumption DEF LedPowerAssumption, IInv, railVars, ledVars, rebootVars, GoTo,
      LedPostFails, LedReturns, Rebooting
<1>1. RailsFollow' /\ UNCHANGED railVars
  BY DEF RailsFollow, Effective
<1>2. TypeOK'
  BY DEF TypeOK, Steps
<1>3. Exclusive' /\ Known'
  BY DEF TypeOK, Known, Exclusive, InCall, Asking, GivingUp, GivingUpR
<1>4. Leaked'
  BY DEF TypeOK, Leaked, Slack, Held
<1>5. Obeys'
  BY DEF TypeOK, Known, Exclusive, Obeys, InCall, Asking, GivingUp, GivingUpR
<1>6. Balanced'
  BY DEF TypeOK, Known, Exclusive, Balanced, Held, InCall, Asking, GivingUp, GivingUpR
<1>7. Passed'
  BY DEF TypeOK, Passed, Off
<1> QED
  BY <1>1, <1>2, <1>3, <1>4, <1>5, <1>6, <1>7

(* An override switches its rail, or cannot:                                 *)
(* power_mgmt_service_rail_set_override.                                     *)
LEMMA SetOverrideStep ==
  ASSUME IInv, NEW t \in Tasks, NEW r \in Rails, NEW mode \in {"auto", "on", "off"},
         SetOverride(t, r, mode)
  PROVE  IInv'
<1> USE LedPowerAssumption DEF LedPowerAssumption, IInv, ledVars, rebootVars
<1>1. /\ UNCHANGED <<refcount, ledVars, pc, rebootVars, skewed>>
      /\ override' = [override EXCEPT ![r] = mode]
      /\ overridden' = overridden \union {r}
  BY DEF SetOverride
<1>2. faults \in Nat /\ refcount \in [Rails -> Nat] /\ enabled \in [Rails -> BOOLEAN]
  BY DEF TypeOK
<1>3. CASE Follow(r)
  <2>1. enabled' \in [Rails -> BOOLEAN]
    BY <1>3, FollowType
  <2>2. TypeOK' /\ RailsFollow'
    BY <1>1, <1>3, <2>1 DEF Follow, TypeOK, RailsFollow, Effective
  <2>3. Leaked'
    <3>1. Slack <= Slack' /\ Slack \in Nat /\ Slack' \in Nat
      BY <1>2, <1>3 DEF Follow, Slack
    <3>2. Held' = Held /\ refcount' = refcount /\ pc' = pc
      BY <1>1 DEF Held
    <3>3. \A n \in Nat : (n <= Slack + Held => n <= Slack' + Held) /\ (n <= Slack => n <= Slack')
      BY <3>1, Numbers
    <3> QED
      BY <3>2, <3>3, Numbers DEF Leaked
  <2>4. Passed'
    BY <1>1, <1>3 DEF Follow, TypeOK, Passed, Off
  <2> QED
    BY <1>1, <2>2, <2>3, <2>4 DEF Exclusive, Known, Obeys, Balanced, Held
<1>4. CASE PinsFail(r)
  <2>1. /\ enabled' = enabled /\ stuck' = stuck \union {r}
        /\ faults' = faults + 1 /\ faults < MaxFaults
    BY <1>4 DEF PinsFail
  <2>2. TypeOK' /\ RailsFollow'
    BY <1>1, <2>1 DEF TypeOK, RailsFollow, Effective
  <2>3. Leaked'
    <3>1. Slack <= Slack' /\ Slack \in Nat /\ Slack' \in Nat
      BY <1>2, <2>1 DEF Slack
    <3>2. Held' = Held /\ refcount' = refcount /\ pc' = pc
      BY <1>1 DEF Held
    <3>3. \A n \in Nat : (n <= Slack + Held => n <= Slack' + Held) /\ (n <= Slack => n <= Slack')
      BY <3>1, Numbers
    <3> QED
      BY <3>2, <3>3, Numbers DEF Leaked
  <2>4. Passed'
    BY <1>1, <2>1 DEF TypeOK, Passed, Off
  <2> QED
    BY <1>1, <2>2, <2>3, <2>4 DEF Exclusive, Known, Obeys, Balanced, Held
<1> QED
  BY <1>3, <1>4 DEF SetOverride

(* A reboot begins.                                                          *)
LEMMA RebootStep == ASSUME IInv, NEW t \in Tasks, Reboot(t) PROVE IInv'
<1> USE LedPowerAssumption DEF LedPowerAssumption, IInv, railVars, ledVars, rebootVars, GoTo,
      Reboot
<1>1. RailsFollow' /\ UNCHANGED railVars
  BY DEF RailsFollow, Effective
<1>2. TypeOK'
  BY DEF TypeOK, Steps
<1>3. Exclusive' /\ Known'
  BY DEF TypeOK, Known, Exclusive, InCall, Asking, GivingUp, GivingUpR
<1>4. Leaked'
  BY DEF TypeOK, Leaked, Slack, Held
<1>5. Obeys'
  BY DEF TypeOK, Known, Exclusive, Obeys, InCall, Asking, GivingUp, GivingUpR
<1>6. Balanced'
  BY DEF TypeOK, Known, Exclusive, Balanced, Held, InCall, Asking, GivingUp, GivingUpR
<1>7. Passed'
  BY DEF TypeOK, Passed, Off
<1> QED
  BY <1>1, <1>2, <1>3, <1>4, <1>5, <1>6, <1>7

(* The state after power_mgmt_service_init satisfies the invariant.          *)
LEMMA InitIInv == Init => IInv
<1> SUFFICES ASSUME Init PROVE IInv
  OBVIOUS
<1> USE LedPowerAssumption DEF LedPowerAssumption, Init
<1>1. TypeOK
  <2>1. /\ wanted \in BOOLEAN /\ shining \in BOOLEAN /\ requested \in BOOLEAN
        /\ ledOk \in BOOLEAN /\ pending \in BOOLEAN /\ skewed \in BOOLEAN
    BY Zenon
  <2>2. enabled \in [Rails -> BOOLEAN] /\ failed \in [Tasks -> BOOLEAN]
    OBVIOUS
  <2>3. 1 \in Rails
    BY DEF Rails
  <2> QED
    BY <2>1, <2>2, <2>3 DEF TypeOK, Steps
<1>2. RailsFollow
  <2>1. \A r \in Rails : Effective(r, "auto", 0) = FALSE
    BY DEF Effective
  <2> QED
    BY <2>1 DEF RailsFollow
<1>3. Exclusive /\ Known /\ Obeys
  BY DEF Exclusive, Known, Obeys, InCall, Asking, GivingUp, GivingUpR
<1>4. Leaked /\ Balanced
  BY DEF Leaked, Slack, Balanced, Held, Asking, GivingUp, GivingUpR
<1>5. Passed
  BY DEF Passed
<1> QED
  BY <1>1, <1>2, <1>3, <1>4, <1>5 DEF IInv

(* Every step keeps it.                                                      *)
LEMMA NextIInv == IInv /\ [Next]_vars => IInv'
<1> SUFFICES ASSUME IInv, [Next]_vars PROVE IInv'
  OBVIOUS
<1>1. CASE \E t \in Tasks :
             \/ \E lit \in BOOLEAN : SetLed(t, lit)
             \/ LedStep(t)
             \/ \E r \in Rails, mode \in {"auto", "on", "off"} : SetOverride(t, r, mode)
             \/ Reboot(t) \/ LedOff(t) \/ LaterCallbacks(t)
             \/ AllRailsOff(t) \/ RailPosted(t) \/ Schedule(t)
  <2>1. PICK t \in Tasks :
             \/ \E lit \in BOOLEAN : SetLed(t, lit)
             \/ LedStep(t)
             \/ \E r \in Rails, mode \in {"auto", "on", "off"} : SetOverride(t, r, mode)
             \/ Reboot(t) \/ LedOff(t) \/ LaterCallbacks(t)
             \/ AllRailsOff(t) \/ RailPosted(t) \/ Schedule(t)
    BY <1>1
  <2>2. CASE \E lit \in BOOLEAN : SetLed(t, lit)
    BY <2>2, SetLedStep
  <2>3. CASE LedStep(t)
    <3>1. CASE RailRequest(t)
      BY <3>1, RailRequestStep
    <3>2. CASE RequestPosted(t)
      BY <3>2, RequestPostedStep
    <3>3. CASE Show(t)
      BY <3>3, ShowStep
    <3>4. CASE Clear(t)
      BY <3>4, ClearStep
    <3>5. CASE ClearFails(t)
      BY <3>5, ClearFailsStep
    <3>6. CASE RailRelease(t)
      BY <3>6, RailReleaseStep
    <3>7. CASE Underflow(t)
      BY <3>7, UnderflowStep
    <3>8. CASE ReleasePosted(t)
      BY <3>8, ReleasePostedStep
    <3>9. CASE LedPostFails(t)
      BY <3>9, LedPostFailsStep
    <3> QED
      BY <2>3, <3>1, <3>2, <3>3, <3>4, <3>5, <3>6, <3>7, <3>8, <3>9 DEF LedStep
  <2>4. CASE \E r \in Rails, mode \in {"auto", "on", "off"} : SetOverride(t, r, mode)
    BY <2>4, SetOverrideStep
  <2>5. CASE Reboot(t)
    BY <2>5, RebootStep
  <2>6. CASE LedOff(t)
    BY <2>6, LedOffStep
  <2>7. CASE LaterCallbacks(t)
    BY <2>7, LaterCallbacksStep
  <2>8. CASE AllRailsOff(t)
    BY <2>8, AllRailsOffStep
  <2>9. CASE RailPosted(t)
    BY <2>9, RailPostedStep
  <2>10. CASE Schedule(t)
    BY <2>10, ScheduleStep
  <2> QED
    BY <2>1, <2>2, <2>3, <2>4, <2>5, <2>6, <2>7, <2>8, <2>9, <2>10
<1>2. CASE Restart
  BY <1>2, RestartStep
<1>3. CASE UNCHANGED vars
  <2> USE <1>3 DEF IInv, vars, railVars, ledVars, rebootVars
  <2>1. TypeOK' /\ RailsFollow'
    BY DEF TypeOK, RailsFollow, Effective
  <2>2. Exclusive' /\ Known' /\ Obeys'
    BY DEF Exclusive, Known, Obeys
  <2>3. Leaked' /\ Balanced' /\ Passed'
    BY DEF Leaked, Slack, Balanced, Held, Passed, Off
  <2> QED
    BY <2>1, <2>2, <2>3
<1> QED
  BY <1>1, <1>2, <1>3 DEF Next

(* So it always holds.                                                       *)
LEMMA InductiveInvariant == Spec => []IInv
<1>1. Init => IInv
  BY InitIInv
<1>2. IInv /\ [Next]_vars => IInv'
  BY NextIInv
<1> QED
  BY <1>1, <1>2, PTL DEF Spec

(* Types and the bound on what calls that fail leak, of LedPower's TypeOK:   *)
(* the count of power_mgmt_service_rail_request never passes two and the     *)
(* number of times pins could not be set.                                    *)
THEOREM TypeCorrect == Spec => []TypeOK
<1>1. IInv => TypeOK
  BY DEF IInv
<1> QED
  BY <1>1, InductiveInvariant, PTL

(* After a call of the LED that succeeded, the LED, its rail and what was    *)
(* asked of it agree, whatever failed before:                                *)
(* hid_service_apply_led_locked over power_mgmt_service_apply_locked.        *)
THEOREM LedCorrect == Spec => []LedFollows
<1>1. IInv => LedFollows
  <2> SUFFICES ASSUME IInv PROVE LedFollows
    OBVIOUS
  <2>1. \A r \in Rails \ stuck : enabled[r] = Effective(r, override[r], refcount[r])
    BY DEF IInv, RailsFollow
  <2>2. hidLock = None /\ ledOk => shining = wanted /\ requested = wanted
    BY DEF IInv, Obeys
  <2>3. ASSUME hidLock = None, ~skewed, Led \notin stuck, override[Led] = "auto"
        PROVE  enabled[Led] = requested
    <3>1. refcount[Led] = Held
      BY <2>3 DEF IInv, Balanced
    <3>2. requested \in BOOLEAN /\ Led \in Rails
      BY LedPowerAssumption DEF IInv, TypeOK, LedPowerAssumption
    <3>3. enabled[Led] = Effective(Led, "auto", Held)
      BY <2>1, <2>3, <3>1, <3>2
    <3>4. CASE requested
      <4>1. Held > 0 /\ requested = TRUE
        BY <3>2, <3>4 DEF Held
      <4> QED
        BY <3>3, <4>1 DEF Effective
    <3>5. CASE ~requested
      <4>1. ~(Held > 0) /\ requested = FALSE
        BY <3>2, <3>5 DEF Held
      <4> QED
        BY <3>3, <4>1 DEF Effective
    <3> QED
      BY <3>4, <3>5
  <2> QED
    BY <2>1, <2>2, <2>3 DEF LedFollows
<1> QED
  BY <1>1, InductiveInvariant, PTL

(* No rail is on at a restart but those overridden after a reboot switched   *)
(* them off: power_mgmt_service_set_all_rails_off with its lock released     *)
(* between the rails, and its errors.                                        *)
THEOREM RestartOff == Spec => []OffAtRestart
<1>1. IInv => OffAtRestart
  BY DEF IInv, OffAtRestart, Passed, Off
<1> QED
  BY <1>1, InductiveInvariant, PTL

===============================================================================
