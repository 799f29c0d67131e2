------------------------------- MODULE LedPower -------------------------------
(***************************************************************************)
(* The power rails of main/power_mgmt_service.c and their one client, the  *)
(* status LED of main/hid_service.c.                                       *)
(*                                                                         *)
(* A rail is on when an override says so or, without override, when its    *)
(* reference count is positive.  Whoever changes either switches the rail  *)
(* under the service's lock and then posts an event, with the lock         *)
(* released; when the event cannot be posted the caller is told of a       *)
(* failure though the rail is switched.  When the rail's pins cannot be    *)
(* set the caller is told too, and the rail stays as it was.  The LED asks *)
(* for its rail when it is lit and gives it back when it is put out, and   *)
(* remembers which, under a lock of its own; the strip may refuse either.  *)
(* A reboot puts the LED out, forces all rails off one after the other and *)
(* leaves the restart to the main loop; anyone may switch the LED or an    *)
(* override in between.                                                    *)
(*                                                                         *)
(* All that is done under the service's lock without releasing it is one   *)
(* step.  How the DAC's pins and its mute follow its rail is left out, but *)
(* for that one of these steps may fail.                                   *)
(***************************************************************************)
EXTENDS Integers

CONSTANTS
  Tasks,     \* console, companion and scripts
  NumRails,  \* POWER_MGMT_RAIL_COUNT
  Led,       \* the rail of the LED, POWER_MGMT_RAIL_LED
  MaxFaults, \* bound: pins that cannot be set, those of a reboot not counted
  None       \* no task

Rails == 1 .. NumRails

ASSUME LedPowerAssumption ==
  /\ NumRails \in Nat
  /\ Led \in Rails
  /\ MaxFaults \in Nat
  /\ None \notin Tasks

VARIABLES
  override, refcount, enabled,  \* the rails
  stuck,                        \* history: rails that could not be switched when last
                                \* they had to be
  faults,                       \* history: how often that was so, outside reboots
  hidLock,                      \* the task in a call of the LED, or None
  wanted,                       \* colour and brightness ask for light
  shining,                      \* what the LED strip was last told
  requested,                    \* s_led_rail_requested
  ledOk,                        \* history: the last call of the LED returned no error
  pc,                           \* what each task does next
  at, failed,                   \* a reboot's next rail, and an error kept for the end
  pending,                      \* s_pending_action is set
  skewed,                       \* history: a call of the LED changed the count of its rail
                                \* and failed, or a reboot took the count
  overridden                    \* history: the rails given an override since a reboot
                                \* last forced them off

railVars == <<override, refcount, enabled, stuck, faults>>
ledVars  == <<hidLock, wanted, shining, requested, ledOk>>
rebootVars == <<at, failed, pending>>
vars == <<railVars, ledVars, pc, rebootVars, skewed, overridden>>

Init ==
  /\ override = [r \in Rails |-> "auto"]
  /\ refcount = [r \in Rails |-> 0]
  /\ enabled = [r \in Rails |-> FALSE]
  /\ stuck = {} /\ faults = 0
  /\ hidLock = None
  /\ wanted = FALSE /\ shining = FALSE /\ requested = FALSE /\ ledOk = TRUE
  /\ pc = [t \in Tasks |-> "idle"]
  /\ at = [t \in Tasks |-> 1] /\ failed = [t \in Tasks |-> FALSE]
  /\ pending = FALSE
  /\ skewed = FALSE /\ overridden = {}

(* power_mgmt_service_effective_enabled.                                     *)
Effective(r, mode, count) == mode = "on" \/ (mode = "auto" /\ count > 0)

(* power_mgmt_service_apply_locked: the rail follows; if it changes, an      *)
(* event is to be posted.                                                    *)
Follow(r) ==
  /\ enabled' = [enabled EXCEPT ![r] = Effective(r, override'[r], refcount'[r])]
  /\ stuck' = stuck \ {r}
  /\ UNCHANGED faults

(* Or it should change and its pins cannot be set: an error, and no event.   *)
PinsFail(r) ==
  /\ Effective(r, override'[r], refcount'[r]) # enabled[r]
  /\ UNCHANGED enabled
  /\ stuck' = stuck \union {r}
  /\ faults < MaxFaults /\ faults' = faults + 1

Changes == enabled' # enabled

GoTo(t, step) == pc' = [pc EXCEPT ![t] = step]

Steps ==
  {"idle", "request", "request posted", "show", "clear", "release", "release posted",
   "led off", "reboot clear", "reboot release", "reboot posted", "callbacks", "rails",
   "rail posted", "schedule"}

-----------------------------------------------------------------------------
(* The LED: hid_service_led_set_rgb, _set_brightness and _off, and           *)
(* hid_service_apply_led_locked.  A call of the LED from a reboot goes on    *)
(* with the callbacks after it, or gives up.                                 *)
Rebooting(t) == pc[t] \in {"led off", "reboot clear", "reboot release", "reboot posted"}

LedCall(t, lit) ==
  /\ hidLock = None /\ hidLock' = t
  /\ wanted' = lit

(* Mutant: the LED asks for its rail though it has it.                       *)
SetLedAgain(t, lit) ==
  /\ pc[t] = "idle" /\ LedCall(t, lit)
  /\ GoTo(t, IF lit THEN "request" ELSE "clear")
  /\ UNCHANGED <<railVars, shining, requested, ledOk, rebootVars, skewed, overridden>>

SetLed(t, lit) ==
  /\ pc[t] = "idle" /\ LedCall(t, lit)
  /\ GoTo(t, IF ~lit THEN "clear" ELSE IF requested THEN "show" ELSE "request")
  /\ UNCHANGED <<railVars, shining, requested, ledOk, rebootVars, skewed, overridden>>

LedReturns(t, ok) ==
  /\ hidLock' = None /\ ledOk' = ok
  /\ GoTo(t, IF Rebooting(t) /\ ok THEN "callbacks" ELSE "idle")

(* power_mgmt_service_rail_request, which counts before it switches.         *)
RailRequest(t) ==
  /\ pc[t] = "request"
  /\ refcount' = [refcount EXCEPT ![Led] = @ + 1] /\ UNCHANGED override
  /\ \/ /\ Follow(Led)
        /\ IF Changes THEN GoTo(t, "request posted") /\ UNCHANGED requested
                      ELSE GoTo(t, "show") /\ requested' = TRUE
        /\ UNCHANGED <<hidLock, ledOk, skewed>>
     \/ /\ PinsFail(Led)
        /\ LedReturns(t, FALSE)
        /\ skewed' = TRUE /\ UNCHANGED requested
  /\ UNCHANGED <<wanted, shining, rebootVars, overridden>>

RequestPosted(t) ==
  /\ pc[t] = "request posted"
  /\ requested' = TRUE
  /\ GoTo(t, "show")
  /\ UNCHANGED <<railVars, hidLock, wanted, shining, ledOk, rebootVars, skewed, overridden>>

(* led_strip_set_pixel and led_strip_refresh; or one fails, which may or may *)
(* not have lit the strip.                                                   *)
Show(t) ==
  /\ pc[t] = "show"
  /\ \/ shining' = TRUE /\ LedReturns(t, TRUE)
     \/ shining' \in {shining, TRUE} /\ LedReturns(t, FALSE)
  /\ UNCHANGED <<railVars, wanted, requested, rebootVars, skewed, overridden>>

Clear(t) ==
  /\ pc[t] \in {"clear", "reboot clear"}
  /\ shining' = FALSE
  /\ IF requested
     THEN GoTo(t, IF Rebooting(t) THEN "reboot release" ELSE "release")
          /\ UNCHANGED <<hidLock, ledOk>>
     ELSE LedReturns(t, TRUE)
  /\ UNCHANGED <<railVars, wanted, requested, rebootVars, skewed, overridden>>

(* led_strip_clear fails: the rail is not given back, a reboot is given up.  *)
ClearFails(t) ==
  /\ pc[t] \in {"clear", "reboot clear"}
  /\ shining' \in {shining, FALSE}
  /\ LedReturns(t, FALSE)
  /\ UNCHANGED <<railVars, wanted, requested, rebootVars, skewed, overridden>>

(* power_mgmt_service_rail_release; an underflow is an error.                *)
RailRelease(t) ==
  /\ pc[t] \in {"release", "reboot release"} /\ refcount[Led] > 0
  /\ refcount' = [refcount EXCEPT ![Led] = @ - 1] /\ UNCHANGED override
  /\ \/ /\ Follow(Led)
        /\ IF Changes
           THEN /\ GoTo(t, IF Rebooting(t) THEN "reboot posted" ELSE "release posted")
                /\ UNCHANGED <<hidLock, ledOk, requested>>
           ELSE LedReturns(t, TRUE) /\ requested' = FALSE
        /\ UNCHANGED skewed
     \/ /\ PinsFail(Led)
        /\ LedReturns(t, FALSE)
        /\ skewed' = TRUE /\ UNCHANGED requested
  /\ UNCHANGED <<wanted, shining, rebootVars, overridden>>

Underflow(t) ==
  /\ pc[t] \in {"release", "reboot release"} /\ refcount[Led] = 0
  /\ LedReturns(t, FALSE)
  /\ UNCHANGED <<railVars, wanted, shining, requested, rebootVars, skewed, overridden>>

(* Mutant: it is not cleared when the reference is gone.                     *)
ReleaseNotNoted(t) ==
  /\ pc[t] \in {"release posted", "reboot posted"}
  /\ LedReturns(t, TRUE)
  /\ UNCHANGED <<railVars, wanted, shining, requested, rebootVars, skewed, overridden>>

ReleasePosted(t) ==
  /\ pc[t] \in {"release posted", "reboot posted"}
  /\ requested' = FALSE
  /\ LedReturns(t, TRUE)
  /\ UNCHANGED <<railVars, wanted, shining, rebootVars, skewed, overridden>>

(* The event loop's queue stays full for a second.                           *)
LedPostFails(t) ==
  /\ pc[t] \in {"request posted", "release posted", "reboot posted"}
  /\ LedReturns(t, FALSE)
  /\ skewed' = TRUE
  /\ UNCHANGED <<railVars, wanted, shining, requested, rebootVars, overridden>>

LedStep(t) ==
  \/ RailRequest(t) \/ RequestPosted(t) \/ Show(t)
  \/ Clear(t) \/ ClearFails(t)
  \/ RailRelease(t) \/ Underflow(t) \/ ReleasePosted(t) \/ LedPostFails(t)

-----------------------------------------------------------------------------
(* power_mgmt_service_rail_set_override, by the console and by scripts.      *)
SetOverride(t, r, mode) ==
  /\ pc[t] = "idle"
  /\ override' = [override EXCEPT ![r] = mode]
  /\ UNCHANGED refcount
  /\ Follow(r) \/ PinsFail(r)
  /\ overridden' = overridden \union {r}
  /\ UNCHANGED <<ledVars, pc, rebootVars, skewed>>

-----------------------------------------------------------------------------
(* power_mgmt_service_reboot, or _reboot_to_download.  The callbacks before  *)
(* the LED's have run; had one failed, nothing would have happened here.     *)
(* The Wi-Fi service's comes after it and may fail with the LED put out.     *)
Reboot(t) ==
  /\ pc[t] = "idle"
  /\ GoTo(t, "led off")
  /\ UNCHANGED <<railVars, ledVars, rebootVars, skewed, overridden>>

LedOff(t) ==
  /\ pc[t] = "led off" /\ LedCall(t, FALSE)
  /\ GoTo(t, "reboot clear")
  /\ UNCHANGED <<railVars, shining, requested, ledOk, rebootVars, skewed, overridden>>

LaterCallbacks(t) ==
  /\ pc[t] = "callbacks"
  /\ GoTo(t, "rails") \/ GoTo(t, "idle")
  /\ UNCHANGED <<railVars, ledVars, rebootVars, skewed, overridden>>

(* power_mgmt_service_set_all_rails_off gives the rails an override and goes *)
(* on under the lock up to the next one that is switched off, whose event is *)
(* to be posted, or to the end.  Rails whose pins cannot be set are passed,  *)
(* and the error is kept.                                                    *)
ForceRails(t, mode) ==
  /\ pc[t] = "rails"
  /\ \E r \in at[t] .. NumRails, switched \in BOOLEAN :
       LET passed == at[t] .. r
           broken == {s \in passed : enabled[s] /\ ~(switched /\ s = r)}
       IN  /\ IF switched THEN enabled[r] ELSE r = NumRails
           /\ override' = [s \in Rails |-> IF s \in passed THEN mode ELSE override[s]]
           /\ refcount' = [s \in Rails |-> IF s \in passed THEN 0 ELSE refcount[s]]
           /\ enabled' = [s \in Rails |-> enabled[s] /\ ~(switched /\ s = r)]
           /\ stuck' = (stuck \ passed) \union broken
           /\ skewed' = (skewed \/ (Led \in passed /\ refcount[Led] > 0))
           /\ overridden' = overridden \ (passed \ broken)
           /\ at' = [at EXCEPT ![t] = r]
           /\ failed' = [failed EXCEPT ![t] = @ \/ broken # {}]
           /\ GoTo(t, IF switched THEN "rail posted" ELSE "schedule")
  /\ UNCHANGED <<ledVars, faults, pending>>

(* Mutant: all rails off clears the counts and forces nothing.               *)
TakeCounts(t) == ForceRails(t, "auto")

AllRailsOff(t) == ForceRails(t, "off")

RailPosted(t) ==
  /\ pc[t] = "rail posted"
  /\ \E ok \in BOOLEAN : failed' = [failed EXCEPT ![t] = @ \/ ~ok]
  /\ IF at[t] < NumRails
     THEN GoTo(t, "rails") /\ at' = [at EXCEPT ![t] = @ + 1]
     ELSE GoTo(t, "schedule") /\ UNCHANGED at
  /\ UNCHANGED <<railVars, ledVars, pending, skewed, overridden>>

(* power_mgmt_service_schedule_pending_action, unless a rail failed or a     *)
(* restart is pending already.                                               *)
Schedule(t) ==
  /\ pc[t] = "schedule"
  /\ pending' = (pending \/ ~failed[t])
  /\ GoTo(t, "idle")
  /\ at' = [at EXCEPT ![t] = 1] /\ failed' = [failed EXCEPT ![t] = FALSE]
  /\ UNCHANGED <<railVars, ledVars, skewed, overridden>>

(* power_mgmt_service_process_once: everything starts anew.                  *)
Restart ==
  /\ pending
  /\ override' = [r \in Rails |-> "auto"]
  /\ refcount' = [r \in Rails |-> 0]
  /\ enabled' = [r \in Rails |-> FALSE]
  /\ stuck' = {} /\ faults' = 0
  /\ hidLock' = None
  /\ wanted' = FALSE /\ shining' = FALSE /\ requested' = FALSE /\ ledOk' = TRUE
  /\ pc' = [t \in Tasks |-> "idle"]
  /\ at' = [t \in Tasks |-> 1] /\ failed' = [t \in Tasks |-> FALSE]
  /\ pending' = FALSE
  /\ skewed' = FALSE /\ overridden' = {}

Next ==
  \/ \E t \in Tasks :
       \/ \E lit \in BOOLEAN : SetLed(t, lit)
       \/ LedStep(t)
       \/ \E r \in Rails, mode \in {"auto", "on", "off"} : SetOverride(t, r, mode)
       \/ Reboot(t) \/ LedOff(t) \/ LaterCallbacks(t)
       \/ AllRailsOff(t) \/ RailPosted(t) \/ Schedule(t)
  \/ Restart

Spec == Init /\ [][Next]_vars

-----------------------------------------------------------------------------
(* Types, and: only the LED's rail is counted, and a failed event leaks at   *)
(* most one reference to it (power_mgmt_service_rail_request counts before   *)
(* it fails, hid_service_apply_led_locked then forgets it asked), however    *)
(* often the LED is lit again; each time pins could not be set, one more.    *)
TypeOK ==
  /\ override \in [Rails -> {"auto", "on", "off"}]
  /\ refcount \in [Rails -> Nat] /\ enabled \in [Rails -> BOOLEAN]
  /\ stuck \subseteq Rails /\ faults \in 0 .. MaxFaults
  /\ hidLock \in Tasks \union {None}
  /\ wanted \in BOOLEAN /\ shining \in BOOLEAN /\ requested \in BOOLEAN /\ ledOk \in BOOLEAN
  /\ pc \in [Tasks -> Steps]
  /\ at \in [Tasks -> Rails] /\ failed \in [Tasks -> BOOLEAN]
  /\ pending \in BOOLEAN /\ skewed \in BOOLEAN /\ overridden \subseteq Rails
  /\ \A r \in Rails \ {Led} : refcount[r] = 0
  /\ refcount[Led] <= faults + (IF requested THEN 2 ELSE 1)

(* A rail is what its override and its count say, also while another task is *)
(* posting its event with the lock released, unless its pins could not be    *)
(* set when last it had to change.  A call of the LED that returned no error *)
(* left the strip as it was asked to, and the LED with a reference if, and   *)
(* only if, it was asked to shine, whatever calls failed before and at which *)
(* step; and as long as none failed after it had changed the count, the rail *)
(* without override is on exactly while the LED holds its reference:         *)
(* hid_service_apply_led_locked and the two services' locks.                 *)
LedFollows ==
  /\ \A r \in Rails \ stuck : enabled[r] = Effective(r, override[r], refcount[r])
  /\ hidLock = None /\ ledOk => shining = wanted /\ requested = wanted
  /\ hidLock = None /\ ~skewed /\ Led \notin stuck /\ override[Led] = "auto" =>
       enabled[Led] = requested

(* When the main loop restarts the device no rail is on but one that was     *)
(* given an override after power_mgmt_service_set_all_rails_off had switched *)
(* it off: lighting the LED meanwhile, pins that could not be set or a       *)
(* second reboot leave nothing on.                                           *)
OffAtRestart == pending => \A r \in Rails : enabled[r] => r \in overridden

=============================================================================
