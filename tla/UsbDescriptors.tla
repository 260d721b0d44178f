--------------------------- MODULE UsbDescriptors ---------------------------
(***************************************************************************)
(* implementations/lufa_midi/Descriptors.c, Descriptors.h: what the device *)
(* tells a host of itself, and what a host looks for in it before it       *)
(* configures the device.  A descriptor is the record of the fields that a *)
(* host goes by; its size is LUFA's sizeof.                                *)
(***************************************************************************)
EXTENDS Integers, Sequences, FiniteSets

LOCAL INSTANCE SequencesExt

ENDPOINT_DIR_OUT     == 0
ENDPOINT_DIR_IN      == 128
MIDI_STREAM_IN_EPADDR  == ENDPOINT_DIR_IN + 2
MIDI_STREAM_OUT_EPADDR == ENDPOINT_DIR_OUT + 1
MIDI_STREAM_EPSIZE     == 64
NO_DESCRIPTOR          == 0

(* USB_Descriptor_Configuration_t: its fields, and the sizes of their types. *)
Fields ==
    <<"Config", "Audio_ControlInterface", "Audio_ControlInterface_SPC",
      "Audio_StreamInterface", "Audio_StreamInterface_SPC",
      "MIDI_In_Jack_Emb", "MIDI_In_Jack_Ext", "MIDI_Out_Jack_Emb", "MIDI_Out_Jack_Ext",
      "MIDI_In_Jack_Endpoint", "MIDI_In_Jack_Endpoint_SPC",
      "MIDI_Out_Jack_Endpoint", "MIDI_Out_Jack_Endpoint_SPC">>
Sizes == <<9, 9, 9, 9, 7, 6, 6, 9, 9, 9, 5, 9, 5>>

Total(sizes) == FoldLeft(LAMBDA sum, n : sum + n, 0, sizes)

(* sizeof the structure, and offsetof its k-th field. *)
SizeOf    == Total(Sizes)
Offset(k) == Total(SubSeq(Sizes, 1, k - 1))

-----------------------------------------------------------------------------
Interface(number, endpoints, subclass) ==
    [type |-> "Interface", number |-> number, endpoints |-> endpoints, subclass |-> subclass]
Jack(subtype, type, id, source) ==
    [type |-> "CSInterface", subtype |-> subtype, jack |-> type, id |-> id, source |-> source]
Endpoint(address) == [type |-> "Endpoint", address |-> address, size |-> MIDI_STREAM_EPSIZE]
EndpointJack(id)  == [type |-> "CSEndpoint", id |-> id]

DeviceDescriptor ==
    [type |-> "Device", configurations |-> 1, strings |-> {1, 2, NO_DESCRIPTOR}]

ConfigurationDescriptor ==
    << [type |-> "Configuration", total |-> SizeOf, interfaces |-> 2, number |-> 1],
       Interface(0, 0, "Control"),
       [type |-> "CSInterface", subtype |-> "Header", total |-> Sizes[3], collection |-> {1}],
       Interface(1, 2, "MIDIStreaming"),
       [type |-> "CSInterface", subtype |-> "General", total |-> SizeOf - Offset(5)],
       Jack("InputTerminal", "Embedded", 1, {}),
       Jack("InputTerminal", "External", 2, {}),
       Jack("OutputTerminal", "Embedded", 3, {2}),
       Jack("OutputTerminal", "External", 4, {1}),
       Endpoint(MIDI_STREAM_OUT_EPADDR), EndpointJack(1),
       Endpoint(MIDI_STREAM_IN_EPADDR), EndpointJack(3) >>

(* The length of each string; a fault the properties must notice is one    *)
(* left out.                                                               *)
StringsWithoutLast == [n \in 0 .. 1 |-> IF n = 0 THEN 1 ELSE 11]

Strings == [n \in 0 .. 2 |-> CASE n = 0 -> 1 [] n = 1 -> 11 [] n = 2 -> 8]

(* midi_usb.c: the endpoints the device reads and writes.                  *)
USB_MIDI_Interface ==
    [StreamingInterfaceNumber |-> 1,
     in |-> MIDI_STREAM_IN_EPADDR, out |-> MIDI_STREAM_OUT_EPADDR]

(* CALLBACK_USB_GetDescriptor: nothing at all, or what is at the address.  *)
GetDescriptor(type, number) ==
    CASE type = "Device"        -> <<DeviceDescriptor>>
      [] type = "Configuration" -> ConfigurationDescriptor
      [] type = "String" /\ number \in DOMAIN Strings -> <<Strings[number]>>
      [] OTHER                  -> <<>>

-----------------------------------------------------------------------------
(* A host. *)
Read == GetDescriptor("Configuration", 0)

Of(type) == {k \in DOMAIN Read : Read[k].type = type}

(* The endpoints of the interface described at k: up to the next one.      *)
EndpointsOf(k) == {e \in Of("Endpoint") : e > k /\ ~\E j \in Of("Interface") : k < j /\ j < e}

Interfaces ==
    /\ Cardinality(Of("Interface")) = Read[1].interfaces
    /\ {Read[k].number : k \in Of("Interface")} = 0 .. Read[1].interfaces - 1
    /\ \A k \in Of("Interface") : Cardinality(EndpointsOf(k)) = Read[k].endpoints

(* Walking from one descriptor to the next comes out at the total.         *)
Totals ==
    /\ Read[1].total = Total(SubSeq(Sizes, 1, Len(Read)))
    /\ \A k \in Of("CSInterface") :
          Read[k].subtype = "General" => Read[k].total = Total(SubSeq(Sizes, k, Len(Read)))

Jacks ==
    LET jacks == {Read[k] : k \in {j \in Of("CSInterface") :
                                      Read[j].subtype \in {"InputTerminal", "OutputTerminal"}}}
        With(id) == CHOOSE j \in jacks : j.id = id
    IN  /\ \A j, l \in jacks : j.id = l.id => j = l
        /\ \A j \in jacks : \A s \in j.source :
              \E l \in jacks : l.id = s /\ l.subtype = "InputTerminal" /\ l.jack # j.jack
        /\ \A k \in Of("Endpoint") :
              /\ Read[k + 1].type = "CSEndpoint" /\ Read[k + 1].id \in {j.id : j \in jacks}
              /\ With(Read[k + 1].id).jack = "Embedded"
              /\ With(Read[k + 1].id).subtype =
                    IF Read[k].address < ENDPOINT_DIR_IN THEN "InputTerminal" ELSE "OutputTerminal"

(* Every string the device descriptor names can be read, and string 0, the *)
(* languages.                                                              *)
Named ==
    \A n \in {0} \cup DeviceDescriptor.strings : GetDescriptor("String", n) # <<>>

(* The interface and endpoints it will use are those of the device.        *)
Ports ==
    \E k \in Of("Interface") :
        /\ Read[k].subclass = "MIDIStreaming"
        /\ Read[k].number = USB_MIDI_Interface.StreamingInterfaceNumber
        /\ \E h \in Of("CSInterface") :
              Read[h].subtype = "Header" /\ Read[k].number \in Read[h].collection
        /\ {Read[e].address : e \in EndpointsOf(k)} = {USB_MIDI_Interface.in, USB_MIDI_Interface.out}

HostAccepts ==
    /\ GetDescriptor("Device", 0) # <<>> /\ DeviceDescriptor.configurations = 1
    /\ Interfaces /\ Totals /\ Jacks /\ Named /\ Ports
=============================================================================
