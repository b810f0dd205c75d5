------------------------------- MODULE PciScan -------------------------------
(***************************************************************************)
(* The scan of the PCI buses that kmain starts: drivers/bus/pci.cpp.       *)
(*                                                                         *)
(* `devices` is what the configuration space answers, an input: for each   *)
(* bus and slot the functions that are there, whether function 0 says in   *)
(* its header that there are several, and the bus behind it if it is a     *)
(* bridge.  A function that is absent reads as all ones: its vendor is     *)
(* PCI_NONE, and its header says that there are several functions.         *)
(*                                                                         *)
(* The loops of scan_device, scan_bus and scan_slot are the counters host, *)
(* slot and function, and `level` says in which of them the scan is.  The  *)
(* type is -1 in every call, which stands for any type of device, so that  *)
(* the branch for bridges at the end of scan_function is never taken.      *)
(***************************************************************************)
EXTENDS Naturals, FiniteSets

CONSTANTS
    SLOTS,      \* MAX_PCI_SLOTS
    FUNCTIONS,  \* MAX_PCI_FUNCTIONS, and as many host controllers
    Kinds       \* devices there may be: [functions, multi, behind]

ASSUME PciAssumption ==
    /\ SLOTS \in Nat \ {0} /\ FUNCTIONS \in Nat \ {0}
    /\ Kinds \subseteq [functions : SUBSET (0 .. (FUNCTIONS - 1)), multi : BOOLEAN,
                        behind : 0 .. (FUNCTIONS - 1)]

VARIABLES
    devices,               \* [<<bus, slot>> -> Kinds], never changed
    level,                 \* "device", "host", "bus", "slot" or "done"
    single,                \* one host controller
    host, slot, function,  \* the loops
    found,                 \* functions scan_function was called for
    again,                 \* history: it was called for one a second time
    called                 \* functions the callback was invoked for

scanVars == <<devices, level, single, host, slot, function, found, again, called>>

Buses == 0 .. (FUNCTIONS - 1)
Slots == 0 .. (SLOTS - 1)

\* read_word(PCI_VENDOR_ID) != PCI_NONE
Present(b, s, f) == f \in devices[<<b, s>>].functions

\* read_byte(PCI_HEADER_TYPE) & 0x80, of function 0
Multifunction(b, s) == Present(b, s, 0) => devices[<<b, s>>].multi

ScanInit ==
    /\ devices \in [Buses \X Slots -> Kinds]
    /\ level = "device" /\ single = FALSE
    /\ host = 0 /\ slot = 0 /\ function = 0
    /\ found = {} /\ again = FALSE /\ called = {}

\* scan_function: with no type asked for, the function is read and printed, and
\* that is all.
scan_function(f) ==
    /\ found' = found \cup {<<host, slot, f>>}
    /\ again' = (again \/ <<host, slot, f>> \in found)
    /\ UNCHANGED called

\* scan_device: one controller, or as many as device 0:0 has functions.
scan_device ==
    /\ level = "device"
    /\ single' = ~ Multifunction(0, 0)
    /\ level' = IF Multifunction(0, 0) THEN "host" ELSE "bus"
    /\ UNCHANGED <<devices, host, slot, function, found, again, called>>

\* The loop over the controllers ends at the first that is absent.
MoreHosts == host < FUNCTIONS /\ Present(0, 0, host)

ScanHost ==
    /\ level = "host"
    /\ level' = IF MoreHosts THEN "bus" ELSE "done"
    /\ slot' = 0
    /\ UNCHANGED <<devices, single, host, function, found, again, called>>

\* A slip of EmptySlot: continue in a loop that counts at its end.
EmptySlotForever ==
    /\ level = "bus" /\ slot < SLOTS
    /\ ~ Present(host, slot, 0)
    /\ UNCHANGED scanVars

\* scan_slot of a slot without a device.
EmptySlot ==
    /\ level = "bus" /\ slot < SLOTS
    /\ ~ Present(host, slot, 0)
    /\ slot' = slot + 1
    /\ UNCHANGED <<devices, level, single, host, function, found, again, called>>

\* scan_slot of a device: its function 0, and the others if it says it has any.
FirstFunction ==
    /\ level = "bus" /\ slot < SLOTS
    /\ Present(host, slot, 0)
    /\ scan_function(0)
    /\ IF Multifunction(host, slot)
         THEN level' = "slot" /\ function' = 1 /\ slot' = slot
       ELSE slot' = slot + 1 /\ UNCHANGED <<level, function>>
    /\ UNCHANGED <<devices, single, host>>

\* A slip of NextFunction: the loop ends at the first function that is absent,
\* like the one over the controllers.
NextFunctionBreaks ==
    /\ level = "slot" /\ function < FUNCTIONS
    /\ \/ /\ Present(host, slot, function) /\ scan_function(function)
          /\ function' = function + 1
       \/ /\ ~ Present(host, slot, function) /\ UNCHANGED <<found, again, called>>
          /\ function' = FUNCTIONS
    /\ UNCHANGED <<devices, level, single, host, slot>>

NextFunction ==
    /\ level = "slot" /\ function < FUNCTIONS
    /\ \/ Present(host, slot, function) /\ scan_function(function)
       \/ ~ Present(host, slot, function) /\ UNCHANGED <<found, again, called>>
    /\ function' = function + 1
    /\ UNCHANGED <<devices, level, single, host, slot>>

EndOfSlot ==
    /\ level = "slot" /\ function = FUNCTIONS
    /\ level' = "bus" /\ slot' = slot + 1
    /\ UNCHANGED <<devices, single, host, function, found, again, called>>

EndOfBus ==
    /\ level = "bus" /\ slot = SLOTS
    /\ IF single THEN level' = "done" /\ UNCHANGED host
       ELSE level' = "host" /\ host' = host + 1
    /\ UNCHANGED <<devices, single, slot, function, found, again, called>>

ScanNext ==
    \/ scan_device \/ ScanHost \/ EmptySlot \/ FirstFunction \/ NextFunction
    \/ EndOfSlot \/ EndOfBus

ScanSpec == ScanInit /\ [][ScanNext]_scanVars /\ WF_scanVars(ScanNext)

-----------------------------------------------------------------------------
\* The buses of the host controllers: bus 0, or one for each function of 0:0 up
\* to the first that is absent.
HostBuses ==
    IF Present(0, 0, 0) /\ ~ devices[<<0, 0>>].multi THEN {0}
    ELSE {b \in Buses : \A f \in 0 .. b : Present(0, 0, f)}

\* The functions of a device: none without function 0, and no other unless it
\* says so.
FunctionsOf(d) ==
    IF 0 \notin d.functions THEN {} ELSE IF d.multi THEN d.functions ELSE {0}

\* The functions that are really there, on some buses.
FunctionsOn(buses) ==
    {a \in buses \X Slots \X Buses : a[3] \in FunctionsOf(devices[<<a[1], a[2]>>])}

\* A scan finds no function twice and nothing that only looks like a function,
\* and when it ends it has found at least every function on the buses of the host
\* controllers (pci.cpp:75-122).
FindsHostBuses ==
    /\ ~ again
    /\ found \subseteq FunctionsOn(Buses)
    /\ level = "done" => FunctionsOn(HostBuses) \subseteq found

\* "If the device is a bridge, it scans the secondary bus" (pci.cpp:126): a scan
\* that has found a bridge has found, when it ends, what is on the bus behind it.
SecondaryBusesScanned ==
    level = "done" =>
        \A a \in found : LET bus == devices[<<a[1], a[2]>>].behind IN
            a[3] = 0 /\ bus # 0 => FunctionsOn({bus}) \subseteq found

\* A scan "invokes the provided callback for each device found" (pci.cpp:53-54).
CallbackInvoked == level = "done" => found \subseteq called

\* The scan ends, whatever the configuration space answers.
ScanEnds == <>(level = "done")

=============================================================================
