--------------------------- MODULE MCSerialProxy ---------------------------
(***************************************************************************)
(* Instances of SerialProxy for TLC.  Descriptor 0 stands for the ones open*)
(* before serialInit (standard streams, log), the last of which is epoll's.*)
(***************************************************************************)
EXTENDS SerialProxy

CONSTANTS gps, usb,        \* masters
          app1, app2     \* virtuals

\* One device, a reader and a writer.
PairVirtualOf == (app1 :> gps) @@ (app2 :> gps)
PairVirtualList == gps :> <<app2, app1>>

\* The same beside a device without virtuals.
BesideVirtualList == (gps :> <<app2, app1>>) @@ (usb :> <<>>)

\* One device, one writer.
SingleVirtualOf == app1 :> gps
SingleVirtualList == gps :> <<app1>>

\* Two devices with a virtual each.
CrossVirtualOf == (app1 :> gps) @@ (app2 :> usb)
CrossVirtualList == (gps :> <<app1>>) @@ (usb :> <<app2>>)

ReadOnce == [n \in Client |-> 1]
DeviceReadTwice == [n \in Client |-> IF n \in Masters THEN 2 ELSE 1]

\* Only the applications send.
WritersRead == [n \in Client |-> IF n \in Masters THEN 0 ELSE 1]

OneMaster == <<gps>>
TwoMasters == <<usb, gps>>
=============================================================================
