-------------------------- MODULE MCBTPEventHandler --------------------------
(* TLC instance of BTPEventHandler: advertising reports stream in while a    *)
(* test registers for one of them, for any of them, and for an event of      *)
(* another kind, which the IUT sends but self.callbacks has no entry for.    *)
(* Both kinds belong to one service.                                         *)
EXTENDS BTPEventHandler

CONSTANTS gap,                               \* svc_id
          device_found, encryption_change,   \* (svc_id, op)
          report1, report2, encrypted,       \* events
          l_report, l_any, l_enc             \* listeners

MCKey == {device_found, encryption_change}
MCHandled == {report1, report2}
MCEvent == MCHandled \cup {encrypted}
MCListener == {l_report, l_any, l_enc}
MCServiceOf == [k \in MCKey |-> gap]
MCKeyOf == [e \in MCEvent |-> IF e \in MCHandled THEN device_found ELSE encryption_change]
MCFor == [l \in MCListener |-> IF l = l_enc THEN encryption_change ELSE device_found]
MCAccepts == [l \in MCListener |->
                 CASE l = l_report -> {report2}
                   [] l = l_any -> {report1, report2}
                   [] l = l_enc -> {encrypted}]
=============================================================================
