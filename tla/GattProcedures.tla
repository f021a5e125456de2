---------------------------- MODULE GattProcedures ----------------------------
(***************************************************************************)
(* The GATT tests of testcases/GattTestCase.py.  The central IUT discovers *)
(* the attributes of the peripheral's server, reads and writes them and    *)
(* subscribes, and the test looks at what came back in a GattDB.           *)
(*                                                                         *)
(* A central with the GATT_CL service (cl) answers a command at once and   *)
(* reports the result in an event: a callback of the receive thread then   *)
(* fills stack.gatt_cl, one statement after the other, while the test      *)
(* polls it.  A central without it answers with the result.                *)
(*                                                                         *)
(* A test is a program of steps, as in GapProcedures, which has the        *)
(* connection every test begins and ends with: here it stands from the     *)
(* beginning.  A value is only told from no value; the kind of a           *)
(* subscription, the type of a notification and the encoding of frames are *)
(* left out.                                                               *)
(***************************************************************************)
EXTENDS Integers, Sequences, FiniteSets, GattDB

CONSTANTS
    Test,        \* the tests to run
    Server,      \* the attribute tables the peripheral may have
    MaxNotes     \* bound on the notifications of a subscription

Tests == {"GAD_1", "GAD_2", "GAD_3", "GAD_4", "GAD_5", "GAD_6",
          "GAR_1", "GAR_2", "GAR_3", "GAR_4", "GAW_1", "GAW_2", "GAW_3", "GAW_4",
          "GAN_1", "GAI_1"}

ASSUME TestAssumption == Test \subseteq Tests
\* The order of attributes that GATT prescribes: the groups of services do not
\* overlap, included services and characteristics lie in a service, the value of
\* a characteristic is in front of the next attribute that can be discovered,
\* and a descriptor comes after a characteristic of the same service.
Ordered(s) ==
    /\ \A c \in OfKind(s, "chr") :
          c < s[c].last /\ \A g \in DOMAIN s : ~(c < g /\ g <= s[c].last)
    /\ \A v \in OfKind(s, "svc") :
          v <= s[v].last /\ \A t \in OfKind(s, "svc") : v < t => s[v].last < t
    /\ \A h \in OfKind(s, "chr") \cup OfKind(s, "inc") :
          \E v \in OfKind(s, "svc") : v < h /\ h <= s[v].last
    /\ \A d \in OfKind(s, "dsc") :
          \E c \in OfKind(s, "chr") :
              s[c].last < d /\ \A v \in OfKind(s, "svc") : ~(c < v /\ v < d)

ASSUME ServerAssumption ==
    \A s \in Server :
        /\ DOMAIN s \subseteq 1 .. MaxHandle
        /\ \A h \in DOMAIN s : s[h] \in [kind : Kind, uuid : STRING, last : 0 .. MaxHandle]
        /\ Ordered(s)
ASSUME MaxNotesAssumption == MaxNotes \in Nat \ {0}

VARIABLES
    test,        \* the test that runs
    cl,          \* the central has the GATT_CL service
    server,      \* the attributes of the peripheral
    att,         \* how it takes a read or a write, and if its values may be empty
    air,         \* the link: linked, lost, or the central has crashed
    pc,          \* the next step of the test
    outcome,     \* running, passed, or how it failed
    loc,         \* its local variables
    todo,        \* the services find_included_svcs() has still to ask about
    db,          \* stack.gatt_cl.db, or the GattDB of the last discovery
    lists,       \* gatt_cl: the lengths of prim_svcs, incl_svcs, chrcs, dscs
    counts,      \* gatt_cl: how many elements each is to have
    values,      \* gatt_cl.verify_values, of which only the first is read
    written,     \* gatt_cl.write_status is not None
    notes,       \* the value handles of gatt_cl.notifications
    rspq,        \* the central's BTPWorker._rx_queue
    future,      \* the future the test waits for: none, waiting or done
    callback,    \* the statements left of the callback that is running
    dead,        \* the central's receive thread has died
    stream,      \* the frames the central has sent
    request,     \* the command it has not answered
    busy,        \* the GATT_CL procedure it is at
    subscribed,  \* the characteristic value it is notified of
    notified,    \* how often it has been
    changed,     \* the peripheral's report of a write is under way
    missed,      \* history: it found no listener
    torn         \* history: a result was read from an unfinished callback

fixed == <<test, cl, server, att>>
testVars == <<pc, outcome, loc, todo, torn>>
clVars == <<lists, counts, values, written, notes>>
rxVars == <<callback, dead>>
airVars == <<air, request, busy, subscribed, notified, changed, missed>>
vars == <<fixed, testVars, db, clVars, rspq, future, rxVars, stream, airVars>>

Sorted(handles) ==
    [k \in 1 .. Cardinality(handles) |->
        CHOOSE h \in handles : Cardinality({g \in handles : g < h}) = k - 1]
Elements(seq) == {seq[k] : k \in DOMAIN seq}

Lists == {"prim_svcs", "incl_svcs", "chrcs", "dscs"}
NoCount == -1        \* Python's None, as get_count
NoRequest == [op |-> "none", lo |-> None, hi |-> None, uuid |-> "any"]

-----------------------------------------------------------------------------
\* The steps of a test.

Step(do, op, arg) == <<[do |-> do, op |-> op, arg |-> arg]>>

Send(op, arg) == Step("send", op, arg)
ReadRsp(op) == Step("rsp", op, "")
Wait(what) == Step("wait", what, "")

\* Commands without GATT_CL, and the reads of their responses.
gattc_disc_prim_svcs == Send("disc_prim_svcs", "any")
gattc_disc_prim_uuid(uuid) == Send("disc_prim_uuid", uuid)
gattc_find_included == Send("find_included", "service")
gattc_disc_all_chrc == Send("disc_all_chrc", "any")
gattc_disc_chrc_uuid(uuid) == Send("disc_chrc_uuid", uuid)
gattc_disc_all_desc == Send("disc_all_desc", "any")
gattc_read(hdl) == Send("read", hdl)
gattc_read_long(hdl) == Send("read_long", hdl)
gattc_write(hdl) == Send("write", hdl)
gattc_write_long(hdl) == Send("write_long", hdl)
gattc_cfg_notify == Send("cfg_notify", "dsc") \o ReadRsp("status")
gattc_cfg_indicate == Send("cfg_indicate", "dsc") \o ReadRsp("status")

gattc_disc_prim_svcs_rsp == ReadRsp("new_db")
gattc_disc_prim_uuid_rsp == ReadRsp("new_db")
gattc_find_included_rsp == ReadRsp("add_to_db")
gattc_disc_all_chrc_rsp == ReadRsp("new_db")
gattc_disc_chrc_uuid_rsp == ReadRsp("new_db")
gattc_disc_all_desc_rsp == ReadRsp("new_db")
gattc_read_rsp == ReadRsp("value")
gattc_read_long_rsp == ReadRsp("value")
gattc_write_rsp == ReadRsp("value")
gattc_write_long_rsp == ReadRsp("value")

\* Commands with GATT_CL.
gatt_cl_command_rsp_succ == ReadRsp("status")

gatt_cl_disc_prim_svcs == Send("disc_prim_svcs", "any") \o gatt_cl_command_rsp_succ
gatt_cl_disc_prim_uuid(uuid) == Send("disc_prim_uuid", uuid) \o gatt_cl_command_rsp_succ
gatt_cl_find_included == Send("find_included", "any") \o gatt_cl_command_rsp_succ
gatt_cl_disc_all_chrc ==
    Step("reset", "chrcs", "") \o Send("disc_all_chrc", "any") \o gatt_cl_command_rsp_succ
gatt_cl_disc_chrc_uuid(uuid) ==
    Step("reset", "chrcs", "") \o Send("disc_chrc_uuid", uuid) \o gatt_cl_command_rsp_succ
gatt_cl_disc_all_desc ==
    Step("reset", "dscs", "") \o Send("disc_all_desc", "any") \o gatt_cl_command_rsp_succ
gatt_cl_read(hdl) == Send("read", hdl) \o gatt_cl_command_rsp_succ
gatt_cl_read_long(hdl) == Send("read_long", hdl) \o gatt_cl_command_rsp_succ
gatt_cl_write(hdl) == Send("write", hdl) \o gatt_cl_command_rsp_succ
gatt_cl_write_long(hdl) == Send("write_long", hdl) \o gatt_cl_command_rsp_succ
gatt_cl_cfg_notify == Send("cfg_notify", "dsc") \o gatt_cl_command_rsp_succ
gatt_cl_cfg_indicate == Send("cfg_indicate", "dsc") \o gatt_cl_command_rsp_succ

\* The procedures of GattTestCase: with GATT_CL, without it.
disc_prim_svcs ==
    IF cl THEN gatt_cl_disc_prim_svcs \o Wait("prim_svcs")
          ELSE gattc_disc_prim_svcs \o gattc_disc_prim_svcs_rsp

disc_prim_uuid(uuid) ==
    IF cl THEN gatt_cl_disc_prim_uuid(uuid) \o Wait("prim_svcs")
          ELSE gattc_disc_prim_uuid(uuid) \o gattc_disc_prim_uuid_rsp

\* The step "services" skips the two that follow it when there is none.
find_included_svcs ==
    IF cl THEN gatt_cl_find_included \o Wait("incl_svcs")
          ELSE Step("services", "", "") \o gattc_find_included \o gattc_find_included_rsp

disc_all_chrc ==
    IF cl THEN gatt_cl_disc_all_chrc \o Wait("chrcs")
          ELSE gattc_disc_all_chrc \o gattc_disc_all_chrc_rsp

disc_chrc_uuid(uuid) ==
    IF cl THEN gatt_cl_disc_chrc_uuid(uuid) \o Wait("chrcs")
          ELSE gattc_disc_chrc_uuid(uuid) \o gattc_disc_chrc_uuid_rsp

disc_all_desc ==
    IF cl THEN gatt_cl_disc_all_desc \o Wait("dscs")
          ELSE gattc_disc_all_desc \o gattc_disc_all_desc_rsp

\* verify_values[0]
FirstValue == Step("value", "", "")
AssertNoError == Step("assert", "rsp", "no_error")

read(hdl) ==
    (IF cl THEN gatt_cl_read(hdl) \o Wait("read") \o FirstValue
           ELSE gattc_read(hdl) \o gattc_read_rsp)
    \o AssertNoError

read_long(hdl) ==
    (IF cl THEN gatt_cl_read_long(hdl) \o Wait("read") \o FirstValue
           ELSE gattc_read_long(hdl) \o gattc_read_long_rsp)
    \o AssertNoError

gatts_attr_value_changed_ev == Step("listen", "", "")
WaitFutures == Step("future", "", "")

write(hdl) ==
    IF cl THEN gatt_cl_write(hdl) \o gatts_attr_value_changed_ev
               \o Wait("write_rsp") \o FirstValue
          ELSE gattc_write(hdl) \o gatts_attr_value_changed_ev \o gattc_write_rsp

write_long(hdl) ==
    IF cl THEN gatt_cl_write_long(hdl) \o gatts_attr_value_changed_ev
               \o Wait("write_rsp") \o FirstValue
          ELSE gattc_write_long(hdl) \o gatts_attr_value_changed_ev
               \o gattc_write_long_rsp

gattc_notification_ev == Step("listen", "", "")

cfg_notify ==
    IF cl THEN gatt_cl_cfg_notify \o Wait("write_rsp") \o FirstValue \o AssertNoError
               \o Wait("notifications") \o Step("notification", "", "")
          ELSE gattc_notification_ev \o gattc_cfg_notify \o gattc_write_rsp
               \o AssertNoError \o WaitFutures

cfg_indicate ==
    IF cl THEN gatt_cl_cfg_indicate \o Wait("write_rsp") \o FirstValue \o AssertNoError
               \o Wait("notifications") \o Step("notification", "", "")
          ELSE gattc_notification_ev \o gattc_cfg_indicate \o gattc_write_rsp
               \o AssertNoError \o WaitFutures

\* A look-up in the database; the test asserts that it found something.
Find(kind, uuid) == Step("find", kind, uuid)
FindEnd == Step("end", "", "")

test_btp_GATT_CL_GAD_1 == disc_prim_svcs \o Find("svc", "SVC")
test_btp_GATT_CL_GAD_2 == disc_prim_uuid("SVC") \o Find("svc", "SVC")
test_btp_GATT_CL_GAD_3 == disc_prim_svcs \o find_included_svcs \o Find("inc", "INC_SVC")

test_btp_GATT_CL_GAD_4 ==
    disc_prim_uuid("SVC") \o Find("svc", "SVC")
    \o disc_all_chrc \o Find("chr", "CHR_READ_WRITE")

test_btp_GATT_CL_GAD_5 ==
    disc_chrc_uuid("CHR_READ_WRITE") \o Find("chr", "CHR_READ_WRITE")

Descriptor(uuid) ==
    disc_prim_uuid("SVC") \o Find("svc", "SVC")
    \o disc_all_chrc \o Find("chr", "CHR_READ_WRITE") \o FindEnd
    \o disc_all_desc \o Find("dsc", uuid)

test_btp_GATT_CL_GAD_6 == Descriptor("DSC_READ_WRITE")

test_btp_GATT_CL_GAR_1 ==
    disc_chrc_uuid("CHR_READ_WRITE") \o Find("chr", "CHR_READ_WRITE") \o read("value")

test_btp_GATT_CL_GAR_2 ==
    disc_chrc_uuid("LONG_CHR_READ_WRITE") \o Find("chr", "LONG_CHR_READ_WRITE")
    \o read_long("value")

test_btp_GATT_CL_GAR_3 == Descriptor("DSC_READ_WRITE") \o read("dsc")
test_btp_GATT_CL_GAR_4 == Descriptor("LONG_DSC_READ_WRITE") \o read_long("dsc")

test_btp_GATT_CL_GAW_1 ==
    disc_chrc_uuid("CHR_READ_WRITE") \o Find("chr", "CHR_READ_WRITE")
    \o write("value") \o AssertNoError \o WaitFutures

test_btp_GATT_CL_GAW_2 ==
    disc_chrc_uuid("LONG_CHR_READ_WRITE") \o Find("chr", "LONG_CHR_READ_WRITE")
    \o write_long("value") \o AssertNoError \o WaitFutures

\* This one does not look at the response.
test_btp_GATT_CL_GAW_3 ==
    Descriptor("DSC_READ_WRITE") \o write("dsc") \o WaitFutures

test_btp_GATT_CL_GAW_4 ==
    Descriptor("LONG_DSC_READ_WRITE") \o write_long("dsc") \o AssertNoError \o WaitFutures

Subscription ==
    disc_chrc_uuid("CHR_NOTIFY") \o Find("chr", "CHR_NOTIFY") \o FindEnd
    \o disc_all_desc \o Find("dsc", "CCC")

verify_notification_ev == Step("assert", "handle", "value")

test_btp_GATT_CL_GAN_1 == Subscription \o cfg_notify \o verify_notification_ev
test_btp_GATT_CL_GAI_1 == Subscription \o cfg_indicate \o verify_notification_ev

disconnection_procedure == Step("disconnect", "", "")

Program(t) ==
    (CASE t = "GAD_1" -> test_btp_GATT_CL_GAD_1
       [] t = "GAD_2" -> test_btp_GATT_CL_GAD_2
       [] t = "GAD_3" -> test_btp_GATT_CL_GAD_3
       [] t = "GAD_4" -> test_btp_GATT_CL_GAD_4
       [] t = "GAD_5" -> test_btp_GATT_CL_GAD_5
       [] t = "GAD_6" -> test_btp_GATT_CL_GAD_6
       [] t = "GAR_1" -> test_btp_GATT_CL_GAR_1
       [] t = "GAR_2" -> test_btp_GATT_CL_GAR_2
       [] t = "GAR_3" -> test_btp_GATT_CL_GAR_3
       [] t = "GAR_4" -> test_btp_GATT_CL_GAR_4
       [] t = "GAW_1" -> test_btp_GATT_CL_GAW_1
       [] t = "GAW_2" -> test_btp_GATT_CL_GAW_2
       [] t = "GAW_3" -> test_btp_GATT_CL_GAW_3
       [] t = "GAW_4" -> test_btp_GATT_CL_GAW_4
       [] t = "GAN_1" -> test_btp_GATT_CL_GAN_1
       [] t = "GAI_1" -> test_btp_GATT_CL_GAI_1)
    \o disconnection_procedure

-----------------------------------------------------------------------------
Att == {"ok", "empty", "refused", "unknown"}
Statuses == {"success", "error", "no_error", "refused", "unknown"}
Command == {"disc_prim_svcs", "disc_prim_uuid", "find_included", "disc_all_chrc",
            "disc_chrc_uuid", "disc_all_desc", "read", "read_long", "write", "write_long",
            "cfg_notify", "cfg_indicate"}
Frame == [type : {"rsp", "ev"}, op : Command \cup {"notification"}, status : Statuses,
          found : Seq(1 .. MaxHandle)]

TypeOK ==
    /\ test \in Test /\ cl \in BOOLEAN /\ server \in Server /\ att \in Att
    /\ air \in {"linked", "lost", "crashed"}
    /\ pc \in 1 .. Len(Program(test)) + 1
    /\ outcome \in {"running", "passed", "assertion", "raised"}
    /\ \A x \in {"start", "stop", "chr", "value", "dsc", "end", "handle"} :
          loc[x] \in 0 .. MaxHandle
    /\ loc.rsp \in Statuses \cup {"none"}
    /\ todo \in Seq(DOMAIN server)
    /\ \A h \in DOMAIN db : h \in DOMAIN server /\ db[h] = server[h]
    /\ DOMAIN lists = Lists /\ DOMAIN counts = Lists
    /\ \A l \in Lists : lists[l] \in Nat /\ counts[l] \in Nat \cup {NoCount}
    /\ values \in Seq(Statuses) /\ written \in BOOLEAN
    /\ notes \in Seq(1 .. MaxHandle) /\ Len(notes) <= MaxNotes
    /\ rspq \in Seq(Frame) /\ Len(rspq) <= 1
    /\ stream \in Seq(Frame)
    /\ future \in {"none", "waiting", "done"}
    /\ dead \in BOOLEAN /\ changed \in BOOLEAN /\ missed \in BOOLEAN /\ torn \in BOOLEAN
    /\ notified \in 0 .. MaxNotes

\* setUp() has run preconditions(), with gatt_cl_init() for a central that has
\* the service, and connection_procedure() has connected the two.
Init ==
    /\ test \in Test /\ cl \in BOOLEAN /\ server \in Server /\ att \in Att
    /\ air = "linked"
    /\ pc = 1 /\ outcome = "running"
    /\ loc = [start |-> None, stop |-> None, chr |-> None, value |-> None,
              dsc |-> None, end |-> None, handle |-> None, rsp |-> "none"]
    /\ todo = <<>> /\ torn = FALSE
    /\ db = EmptyDB
    /\ lists = [l \in Lists |-> 0] /\ counts = [l \in Lists |-> NoCount]
    /\ values = <<>> /\ written = FALSE /\ notes = <<>>
    /\ rspq = <<>> /\ future = "none"
    /\ callback = <<>> /\ dead = FALSE
    /\ stream = <<>>
    /\ request = NoRequest /\ busy = NoRequest
    /\ subscribed = None /\ notified = 0
    /\ changed = FALSE /\ missed = FALSE

-----------------------------------------------------------------------------
\* The two IUTs (external).

iutsKeep == <<fixed, testVars, db, clVars, rspq, future, rxVars>>

KindOf(op) ==
    CASE op \in {"disc_prim_svcs", "disc_prim_uuid"} -> "svc"
      [] op = "find_included" -> "inc"
      [] op \in {"disc_all_chrc", "disc_chrc_uuid"} -> "chr"
      [] op = "disc_all_desc" -> "dsc"
      [] OTHER -> "none"

Discovered(r) ==
    Sorted({h \in OfKind(server, KindOf(r.op)) :
               /\ r.lo <= h /\ h <= r.hi
               /\ r.uuid \in {"any", server[h].uuid}})

AttStatus == IF att \in {"refused", "unknown"} THEN att ELSE "no_error"

Outcome(type, r) ==
    [type |-> type, op |-> r.op,
     status |-> IF KindOf(r.op) # "none" THEN "no_error" ELSE AttStatus,
     found |-> IF KindOf(r.op) # "none" THEN Discovered(r)
               ELSE IF r.op \in {"read", "read_long"} /\ att = "ok" THEN <<r.lo>>
               ELSE <<>>]

\* The value of the characteristic a descriptor belongs to.
ValueAbove(dsc) ==
    LET above == {h \in OfKind(server, "chr") : h < dsc}
    IN  IF above = {} THEN None
        ELSE server[CHOOSE h \in above : \A g \in above : g <= h].last

\* What a write or a subscription does to the peripheral.
Effect(r) ==
    /\ changed' = (r.op \in {"write", "write_long"} /\ AttStatus = "no_error")
    /\ subscribed' = IF r.op \in {"cfg_notify", "cfg_indicate"} /\ AttStatus = "no_error"
                     THEN ValueAbove(r.lo) ELSE subscribed

Status(status) == [type |-> "rsp", op |-> request.op, status |-> status, found |-> <<>>]

Answer ==
    /\ outcome = "running" /\ request # NoRequest /\ air # "crashed"
    /\ \/ /\ air = "lost"
          /\ stream' = Append(stream, Status("error"))
          /\ UNCHANGED <<busy, changed, subscribed>>
       \/ /\ air = "linked" /\ cl
          /\ stream' = Append(stream, Status("success"))
          /\ busy' = request
          /\ UNCHANGED <<changed, subscribed>>
       \/ /\ air = "linked" /\ ~cl
          /\ stream' = Append(stream, Outcome("rsp", request))
          /\ Effect(request)
          /\ UNCHANGED busy
    /\ request' = NoRequest
    /\ UNCHANGED <<iutsKeep, air, notified, missed>>

\* A GATT_CL procedure is over.
Report ==
    /\ outcome = "running" /\ busy # NoRequest /\ air = "linked"
    /\ stream' = Append(stream, Outcome("ev", busy))
    /\ Effect(busy)
    /\ busy' = NoRequest
    /\ UNCHANGED <<iutsKeep, air, request, notified, missed>>

CanNotify == air = "linked" /\ subscribed # None /\ notified < MaxNotes

\* The value it is notified of may be empty, too.
Notify ==
    /\ outcome = "running" /\ CanNotify
    /\ \E found \in {<<subscribed>>} \cup (IF att = "empty" THEN {<<>>} ELSE {}) :
          stream' = Append(stream, [type |-> "ev", op |-> "notification",
                                    status |-> "no_error", found |-> found])
    /\ notified' = notified + 1
    /\ UNCHANGED <<iutsKeep, air, request, busy, subscribed, changed, missed>>

LoseLink(how) ==
    /\ outcome = "running" /\ air = "linked"
    /\ air' = how
    /\ busy' = NoRequest
    /\ UNCHANGED <<iutsKeep, stream, request, subscribed, notified, changed, missed>>

-----------------------------------------------------------------------------
\* The receive threads: an event without a listener is not heard.

PeripheralRx ==
    /\ outcome = "running" /\ changed
    /\ changed' = FALSE
    /\ IF future = "waiting" THEN future' = "done" /\ UNCHANGED missed
                             ELSE missed' = TRUE /\ UNCHANGED future
    /\ UNCHANGED <<fixed, testVars, db, clVars, rspq, rxVars, stream,
                   air, request, busy, subscribed, notified>>

\* The decoders: the frame carries the handle, the type and the range of every
\* attribute, so that the one under the handle is built anew.
gatt_dec_disc_rsp(hdl) == server[hdl]
gatt_cl_dec_disc_rsp(hdl) == server[hdl]

Statement(do, of, n) == [do |-> do, of |-> of, n |-> n]

Publish(list, found) ==
    <<Statement("list", list, 0), Statement("count", list, Len(found))>>

AppendAndAdd(list, found) ==
    [k \in 1 .. 2 * Len(found) |-> IF k % 2 = 1 THEN Statement("append", list, 0)
                                   ELSE Statement("add", list, found[k \div 2])]

AppendThenAdd(list, found) ==
    [k \in 1 .. 2 * Len(found) |->
        IF k <= Len(found) THEN Statement("append", list, 0)
                           ELSE Statement("add", list, found[k - Len(found)])]

clear_verify_values == Statement("clear", "", 0)
add_to_verify_values(status) == Statement("value", status, 0)

\* The statements of the callbacks.
gatt_cl_disc_all_prim_rsp_ev_(found) ==
    Publish("prim_svcs", found) \o AppendAndAdd("prim_svcs", found)

gatt_cl_disc_prim_uuid_rsp_ev_(found) ==
    Publish("prim_svcs", found) \o AppendAndAdd("prim_svcs", found)

gatt_cl_find_incld_rsp_ev_(found) ==
    Publish("incl_svcs", found) \o AppendAndAdd("incl_svcs", found)

gatt_cl_disc_all_chrc_rsp_ev_(found) ==
    Publish("chrcs", found) \o AppendThenAdd("chrcs", found)

gatt_cl_disc_chrc_uuid_rsp_ev_(found) ==
    Publish("chrcs", found) \o AppendThenAdd("chrcs", found)

gatt_cl_disc_all_desc_rsp_ev_(found) ==
    Publish("dscs", found) \o (IF found = <<>> THEN <<>> ELSE Publish("dscs", found))
    \o AppendAndAdd("dscs", found)

\* A response without data leaves no status behind either.
gatt_cl_read_rsp_ev_(status, found) ==
    <<clear_verify_values>>
    \o (IF found = <<>> THEN <<>> ELSE <<add_to_verify_values(status)>>)

gatt_cl_read_long_rsp_ev_(status) == <<clear_verify_values, add_to_verify_values(status)>>

gatt_cl_write_rsp_ev_(status) ==
    <<Statement("write_status", "", 0), clear_verify_values, add_to_verify_values(status)>>

\* A notification without data is not recorded.
gatt_cl_notification_rxed_ev_(found) ==
    IF found = <<>> THEN <<>> ELSE <<Statement("notification", "", found[1])>>

Callback(f) ==
    CASE f.op = "disc_prim_svcs" -> gatt_cl_disc_all_prim_rsp_ev_(f.found)
      [] f.op = "disc_prim_uuid" -> gatt_cl_disc_prim_uuid_rsp_ev_(f.found)
      [] f.op = "find_included" -> gatt_cl_find_incld_rsp_ev_(f.found)
      [] f.op = "disc_all_chrc" -> gatt_cl_disc_all_chrc_rsp_ev_(f.found)
      [] f.op = "disc_chrc_uuid" -> gatt_cl_disc_chrc_uuid_rsp_ev_(f.found)
      [] f.op = "disc_all_desc" -> gatt_cl_disc_all_desc_rsp_ev_(f.found)
      [] f.op = "read" -> gatt_cl_read_rsp_ev_(f.status, f.found)
      [] f.op = "read_long" -> gatt_cl_read_long_rsp_ev_(f.status)
      [] f.op \in {"write", "write_long", "cfg_notify", "cfg_indicate"} ->
            gatt_cl_write_rsp_ev_(f.status)
      [] f.op = "notification" -> gatt_cl_notification_rxed_ev_(f.found)

rxKeeps == <<fixed, testVars, airVars>>

RxFrame ==
    /\ outcome = "running" /\ ~dead /\ callback = <<>> /\ stream # <<>>
    /\ stream' = Tail(stream)
    /\ LET f == Head(stream)
       IN  \/ /\ f.type = "rsp"
              /\ rspq' = Append(rspq, f)
              /\ UNCHANGED <<future, callback>>
           \/ /\ f.type = "ev" /\ cl
              /\ callback' = Callback(f)
              /\ UNCHANGED <<rspq, future>>
           \/ /\ f.type = "ev" /\ ~cl          \* gattc_notification_ev_
              /\ future' = IF future = "waiting" THEN "done" ELSE future
              /\ UNCHANGED <<rspq, callback>>
    /\ UNCHANGED <<rxKeeps, db, clVars, dead>>

RxStatement ==
    /\ outcome = "running" /\ callback # <<>>
    /\ LET s == Head(callback)
       IN  /\ lists' = CASE s.do = "list" -> [lists EXCEPT ![s.of] = 0]
                         [] s.do = "append" -> [lists EXCEPT ![s.of] = @ + 1]
                         [] OTHER -> lists
           /\ counts' = IF s.do = "count" THEN [counts EXCEPT ![s.of] = s.n] ELSE counts
           /\ db' = IF s.do = "add" THEN attr_add(db, s.n, gatt_cl_dec_disc_rsp(s.n)) ELSE db
           /\ values' = CASE s.do = "clear" -> <<>>
                          [] s.do = "value" /\ s.of # "unknown" -> Append(values, s.of)
                          [] OTHER -> values
           /\ written' = (written \/ s.do = "write_status")
           /\ notes' = IF s.do = "notification" THEN Append(notes, s.n) ELSE notes
           \* att_rsp_str has no text for every status: KeyError
           /\ dead' = (s.do = "value" /\ s.of = "unknown")
    /\ callback' = Tail(callback)
    /\ UNCHANGED <<rxKeeps, rspq, future, stream>>

-----------------------------------------------------------------------------
\* The test.

step == Program(test)[pc]
At(do) == outcome = "running" /\ step.do = do

mainKeeps == <<fixed, rxVars, stream, air, busy, subscribed, notified, changed, missed>>
GoOn == pc' = pc + 1 /\ UNCHANGED outcome
Fail(how) == outcome' = how /\ UNCHANGED pc

\* gatt_cl_disc_all_chrc() and two more empty the list before they send.
ResetList ==
    /\ At("reset")
    /\ lists' = [lists EXCEPT ![step.op] = 0]
    /\ counts' = [counts EXCEPT ![step.op] = NoCount]
    /\ GoOn
    /\ UNCHANGED <<mainKeeps, loc, todo, torn, db, values, written, notes, rspq, future,
                   request>>

\* Mutant: the search for descriptors begins behind its first handle.
RequestPastFirst ==
    LET Req(lo, hi, uuid) == [op |-> step.op, lo |-> lo, hi |-> hi, uuid |-> uuid]
    IN  CASE step.arg = "service" -> Req(Head(todo), server[Head(todo)].last, "any")
          [] step.op = "disc_all_chrc" -> Req(loc.start, loc.stop, "any")
          [] step.op = "disc_all_desc" -> Req(loc.value + 2, loc.end, "any")
          [] step.arg \in {"value", "dsc"} -> Req(loc[step.arg], loc[step.arg], "any")
          [] OTHER -> Req(1, MaxHandle, step.arg)

\* The parameters of a command.
Request ==
    LET Req(lo, hi, uuid) == [op |-> step.op, lo |-> lo, hi |-> hi, uuid |-> uuid]
    IN  CASE step.arg = "service" -> Req(Head(todo), server[Head(todo)].last, "any")
          [] step.op = "disc_all_chrc" -> Req(loc.start, loc.stop, "any")
          [] step.op = "disc_all_desc" -> Req(loc.value + 1, loc.end, "any")
          [] step.arg \in {"value", "dsc"} -> Req(loc[step.arg], loc[step.arg], "any")
          [] OTHER -> Req(1, MaxHandle, step.arg)

\* Without a connection gap_wait_for_connection() gives up and the command is
\* sent all the same.
SendCommand ==
    /\ At("send")
    /\ request' = Request
    /\ GoOn
    /\ UNCHANGED <<mainKeeps, loc, todo, torn, db, clVars, rspq, future>>

\* A response: its attributes go to a GattDB, its ATT status to the test, or
\* only its header is looked at.
StoreRsp(f) ==
    /\ db' = IF step.op \in {"new_db", "add_to_db"}
             THEN [h \in Elements(f.found) \cup (IF step.op = "new_db" THEN {} ELSE DOMAIN db)
                       |-> gatt_dec_disc_rsp(h)]
             ELSE db
    /\ loc' = IF step.op = "value" /\ f.status # "unknown"
              THEN [loc EXCEPT !.rsp = f.status] ELSE loc
    /\ todo' = IF step.op = "add_to_db" THEN Tail(todo) ELSE todo

ReadResponse ==
    /\ At("rsp") /\ rspq # <<>>
    /\ rspq' = Tail(rspq)
    /\ LET f == Head(rspq)
       IN  IF f.status = "error" \/ (step.op = "value" /\ f.status = "unknown")
           THEN Fail("raised") /\ UNCHANGED <<db, loc, todo>>
           ELSE /\ StoreRsp(f)
                /\ pc' = IF todo' # <<>> THEN pc - 1 ELSE pc + 1
                /\ UNCHANGED outcome
    /\ UNCHANGED <<mainKeeps, torn, clVars, future, request>>

\* for svc in db.get_services()
ListServices ==
    /\ At("services")
    /\ todo' = Sorted(get_services(db))
    /\ pc' = IF todo' = <<>> THEN pc + 3 ELSE pc + 1
    /\ UNCHANGED <<mainKeeps, outcome, loc, torn, db, clVars, rspq, future, request>>

is_procedure_done(list) ==
    counts[list] # NoCount /\ (counts[list] <= 0 \/ lists[list] = counts[list])

\* The conditions wait_for_event() polls.
Complete(what) ==
    CASE what \in Lists -> is_procedure_done(what)
      [] what = "read" -> values # <<>>
      [] what = "write_rsp" -> written
      [] what = "notifications" -> Len(notes) = 1

\* Nothing more will happen by itself.
Quiet ==
    /\ dead \/ (stream = <<>> /\ callback = <<>>)
    /\ request = NoRequest \/ air = "crashed"
    /\ busy = NoRequest /\ ~CanNotify /\ ~changed

\* Mutant: wait_for_event() polls without a timer.
WaitForever ==
    /\ At("wait") /\ Complete(step.op)
    /\ GoOn
    /\ UNCHANGED <<mainKeeps, loc, todo, torn, db, clVars, rspq, future, request>>

\* The result of wait_for_event() is not looked at: after its time the test
\* goes on as well.
WaitEnds ==
    /\ At("wait") /\ (Complete(step.op) \/ Quiet)
    /\ GoOn
    /\ UNCHANGED <<mainKeeps, loc, todo, torn, db, clVars, rspq, future, request>>

ReadTimeout ==
    /\ At("rsp") /\ rspq = <<>> /\ Quiet
    /\ Fail("raised")
    /\ UNCHANGED <<mainKeeps, loc, todo, torn, db, clVars, rspq, future, request>>

\* The test reads what a callback may be writing.
Look == torn' = (torn \/ callback # <<>>)

FindByUuid ==
    CASE step.op = "svc" -> find_svc_by_uuid(db, step.arg)
      [] step.op = "inc" -> find_inc_svc_by_uuid(db, step.arg)
      [] step.op = "chr" -> find_chr_by_uuid(db, step.arg)
      [] step.op = "dsc" -> find_dsc_by_uuid(db, step.arg)

FindAttribute ==
    /\ At("find")
    /\ LET h == FindByUuid
       IN  IF h = None
           THEN Fail("assertion") /\ UNCHANGED loc
           ELSE /\ loc' = CASE step.op = "svc" -> [loc EXCEPT !.start = h, !.stop = db[h].last]
                            [] step.op = "chr" -> [loc EXCEPT !.chr = h, !.value = db[h].last]
                            [] step.op = "dsc" -> [loc EXCEPT !.dsc = h]
                            [] OTHER -> loc
                /\ GoOn
    /\ Look
    /\ UNCHANGED <<mainKeeps, todo, db, clVars, rspq, future, request>>

FindCharacteristicEnd ==
    /\ At("end")
    /\ LET e == find_characteristic_end(db, loc.chr)
       IN  IF e = None THEN Fail("assertion") /\ UNCHANGED loc
                       ELSE GoOn /\ loc' = [loc EXCEPT !.end = e]
    /\ Look
    /\ UNCHANGED <<mainKeeps, todo, db, clVars, rspq, future, request>>

Listen ==
    /\ At("listen")
    /\ future' = "waiting"
    /\ GoOn
    /\ UNCHANGED <<mainKeeps, loc, todo, torn, db, clVars, rspq, request>>

WaitFuture ==
    /\ At("future")
    /\ \/ future = "done" /\ GoOn
       \/ future # "done" /\ Quiet /\ Fail("raised")
    /\ UNCHANGED <<mainKeeps, loc, todo, torn, db, clVars, rspq, future, request>>

\* verify_values[0] and notifications[0]: IndexError when there is none.
TakeFirst ==
    /\ \/ /\ At("value") /\ values # <<>>
          /\ loc' = [loc EXCEPT !.rsp = Head(values)]
          /\ GoOn
       \/ /\ At("notification") /\ notes # <<>>
          /\ loc' = [loc EXCEPT !.handle = Head(notes)]
          /\ GoOn
       \/ /\ (At("value") /\ values = <<>>) \/ (At("notification") /\ notes = <<>>)
          /\ Fail("raised") /\ UNCHANGED loc
    /\ Look
    /\ UNCHANGED <<mainKeeps, todo, db, clVars, rspq, future, request>>

\* rsp == "No error"; the notification is one of the characteristic's value.
CheckEqual ==
    /\ At("assert")
    /\ IF IF step.op = "rsp" THEN loc.rsp = "no_error" ELSE loc.handle = loc.value
       THEN GoOn
       ELSE Fail("assertion")
    /\ UNCHANGED <<mainKeeps, loc, todo, torn, db, clVars, rspq, future, request>>

Disconnect ==
    /\ At("disconnect")
    /\ IF air = "linked" THEN outcome' = "passed" /\ pc' = pc + 1 ELSE Fail("raised")
    /\ UNCHANGED <<mainKeeps, loc, todo, torn, db, clVars, rspq, future, request>>

RunTest ==
    \/ ResetList
    \/ SendCommand
    \/ ReadResponse
    \/ ReadTimeout
    \/ ListServices
    \/ WaitEnds
    \/ FindAttribute
    \/ FindCharacteristicEnd
    \/ Listen
    \/ WaitFuture
    \/ TakeFirst
    \/ CheckEqual
    \/ Disconnect

Next ==
    \/ Answer
    \/ Report
    \/ Notify
    \/ LoseLink("lost")
    \/ LoseLink("crashed")
    \/ PeripheralRx
    \/ RxFrame
    \/ RxStatement
    \/ RunTest

Spec == Init /\ [][Next]_vars

\* As long as the link stands the IUTs answer, report and notify, and the
\* threads of the tester run.
FairSpec ==
    /\ Spec
    /\ WF_vars(Answer) /\ WF_vars(Report) /\ WF_vars(Notify)
    /\ WF_vars(PeripheralRx) /\ WF_vars(RxFrame) /\ WF_vars(RxStatement)
    /\ WF_vars(RunTest)

-----------------------------------------------------------------------------
\* What the tests are about, in terms of the server alone.

\* The end of the characteristic or service h is in: the handle before the next
\* attribute of the kinds.
EndOf(h, kinds) ==
    LET next == Lowest({g \in DOMAIN server : g > h /\ server[g].kind \in kinds})
    IN  IF next = None THEN MaxHandle ELSE next - 1

Belongs(dsc, chr) == chr < dsc /\ dsc <= EndOf(chr, {"chr", "svc"})
LastOfService(chr) == EndOf(chr, {"chr", "svc"}) = EndOf(chr, {"svc"})

Has(uuid, kind, lo, hi) ==
    \E h \in OfKind(server, kind) : lo <= h /\ h <= hi /\ server[h].uuid = uuid

HasDescriptor(uuid, chr) ==
    \E h \in OfKind(server, "dsc") : server[h].uuid = uuid /\ Belongs(h, chr)

InService(uuid) ==
    LET svc == find_svc_by_uuid(server, "SVC")
    IN  IF svc = None THEN None
        ELSE Lowest({h \in OfKind(server, "chr") :
                        svc <= h /\ h <= server[svc].last /\ server[h].uuid = uuid})

\* The server has what the test looks for.
Offered ==
    CASE test \in {"GAD_1", "GAD_2"} -> Has("SVC", "svc", 1, MaxHandle)
      [] test = "GAD_3" -> Has("INC_SVC", "inc", 1, MaxHandle)
      [] test = "GAD_4" -> InService("CHR_READ_WRITE") # None
      [] test \in {"GAD_5", "GAR_1", "GAW_1"} -> Has("CHR_READ_WRITE", "chr", 1, MaxHandle)
      [] test \in {"GAR_2", "GAW_2"} -> Has("LONG_CHR_READ_WRITE", "chr", 1, MaxHandle)
      [] test \in {"GAD_6", "GAR_3", "GAW_3"} ->
            /\ InService("CHR_READ_WRITE") # None
            /\ HasDescriptor("DSC_READ_WRITE", InService("CHR_READ_WRITE"))
      [] test \in {"GAR_4", "GAW_4"} ->
            /\ InService("CHR_READ_WRITE") # None
            /\ HasDescriptor("LONG_DSC_READ_WRITE", InService("CHR_READ_WRITE"))
      [] test \in {"GAN_1", "GAI_1"} ->
            /\ Has("CHR_NOTIFY", "chr", 1, MaxHandle)
            /\ HasDescriptor("CCC", find_chr_by_uuid(server, "CHR_NOTIFY"))

Reads == {"GAR_1", "GAR_2", "GAR_3", "GAR_4"}
Subscribes == {"GAN_1", "GAI_1"}

\* A test fails only when the link or the central is lost, the server does not
\* have what is looked for or refuses the access, or for one of these reasons
\* in the tester: a result was read while a callback was writing it; a change
\* was reported before its listener was there; a central with GATT_CL reads an
\* empty value, or was notified of empty values only, of which none is recorded;
\* a central without it subscribes (the response of the command is read twice).
FailureHasCause ==
    outcome \notin {"running", "passed"} =>
        \/ air # "linked"
        \/ ~Offered
        \/ att \in {"refused", "unknown"}
        \/ torn
        \/ missed
        \/ cl /\ att = "empty" /\ test \in Reads
        \/ cl /\ att = "empty" /\ test \in Subscribes /\ notes = <<>>
        \/ ~cl /\ test \in Subscribes

\* A test passes for the attribute it is about.  The descriptor it has found
\* belongs to the characteristic it has found, unless that is the last of its
\* service, where the search goes on through the services behind it, or the
\* characteristics were still coming in when its end was looked for; and a
\* subscription test never passes on the descriptor of another characteristic.
PassedIsRight ==
    outcome = "passed" =>
        /\ test \in Subscribes => Offered /\ Belongs(loc.dsc, loc.chr)
        /\ loc.dsc # None =>
              Belongs(loc.dsc, loc.chr) \/ LastOfService(loc.chr) \/ torn
        /\ loc.dsc = None => Offered

\* Every test ends: an answer that does not come, a link that is lost or a
\* receive thread that has died leave none of them waiting.
TestEnds == <>(outcome # "running")

=============================================================================
