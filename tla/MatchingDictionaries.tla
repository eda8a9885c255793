------------------------- MODULE MatchingDictionaries -------------------------
(***************************************************************************)
(* The matching dictionaries of iokit-matching-usb.cpp and dext_userclient.c: *)
(* a caller describes services, the gizmo makes a dictionary of it, and    *)
(* IOKit compares the dictionary with the services in the registry.        *)
(***************************************************************************)
EXTENDS Integers, DictionaryEntries

CONSTANTS
  Word16,      (* Vendor ids, product ids and device releases (uint16_t).  *)
  Word8,       (* Other fields (uint8_t).                                  *)
  ByteRange,   (* How many values a uint8_t has.                           *)
  Names        (* Class names and bundle identifiers.                      *)

ASSUME WordsAssumption ==
  /\ ByteRange \in Nat \ {0}
  /\ Word8 \subseteq 0..ByteRange - 1
  /\ Word16 \subseteq Nat

VARIABLES
  asked,   (* What the caller describes: the function it calls, arguments. *)
  match    (* The dictionary.                                              *)

matchVars == <<asked, match>>

NoMatch == Entry("IOProviderClass", "none")

MatchInit == asked = [function |-> "none"] /\ match = NoMatch

-----------------------------------------------------------------------------
(* The functions of iokit-matching-usb.cpp                                 *)

usb_interface_classname(modern_iousbhost) ==
  IF modern_iousbhost THEN "IOUSBHostInterface" ELSE "IOUSBInterface"

IOServiceMatching(class) == Entry("IOProviderClass", class)

(* Mutated form of dictionary_set_vid_iface_config: the two are exchanged. *)
vid_config_iface(dict, a) ==
  Overlay(dict, [idVendor |-> a.vendor_id,
                 bInterfaceNumber |-> a.configuration_value,
                 bConfigurationValue |-> a.interface_number])

dictionary_set_vid_iface_config(dict, a) ==
  Overlay(dict, [idVendor |-> a.vendor_id,
                 bInterfaceNumber |-> a.interface_number,
                 bConfigurationValue |-> a.configuration_value])

Interface(a) == IOServiceMatching(usb_interface_classname(a.modern_iousbhost_classnames))

VIDPIDMatch(a) ==
  Overlay(dictionary_set_vid_iface_config(Interface(a), a), [idProduct |-> a.product_id])

VIDPIDsMatch(a) ==
  Overlay(dictionary_set_vid_iface_config(Interface(a), a), [idProductArray |-> a.product_ids])

(* revision_bcd_device is a uint8_t, a device's release is not.            *)
Revision(a) == [bcdDevice |-> a.revision_bcd_device % ByteRange]

VIDPIDRevisionMatch(a) == Overlay(VIDPIDMatch(a), Revision(a))
VIDPIDsRevisionMatch(a) == Overlay(VIDPIDsMatch(a), Revision(a))

VIDVendorSpecificSubclassProtocolMatch(a) ==
  Overlay(Interface(a), [idVendor |-> a.vendor_id,
                         bInterfaceSubClass |-> a.interface_subclass,
                         bInterfaceProtocol |-> a.interface_protocol])

(* djt_user_service_matching, with the properties under                    *)
(* kIOPropertyMatchKey in place.                                           *)
djt_user_service_matching(a) ==
  Overlay(IOServiceMatching("IOUserService"),
          [IOUserClass |-> a.driverkit_classname,
           CFBundleIdentifier |-> a.driverkit_server_bundle_id])

-----------------------------------------------------------------------------
(* The arguments of all the functions; each has its own of them.           *)
Arguments ==
  [vendor_id : Word16, product_id : Word16, product_ids : SUBSET Word16,
   revision_bcd_device : Word16, modern_iousbhost_classnames : BOOLEAN,
   interface_number : Word8, configuration_value : Word8,
   interface_subclass : Word8, interface_protocol : Word8,
   driverkit_classname : Names, driverkit_server_bundle_id : Names]

Create(function, Dictionary(_)) ==
  \E a \in Arguments :
    /\ asked' = [function |-> function, arguments |-> a]
    /\ match' = Dictionary(a)

CreateVIDPID == Create("VIDPID", VIDPIDMatch)
CreateVIDPIDRevision == Create("VIDPIDRevision", VIDPIDRevisionMatch)
CreateVIDPIDs == Create("VIDPIDs", VIDPIDsMatch)
CreateVIDPIDsRevision == Create("VIDPIDsRevision", VIDPIDsRevisionMatch)
CreateSubclassProtocol == Create("SubclassProtocol", VIDVendorSpecificSubclassProtocolMatch)
CreateUserService == Create("user_service", djt_user_service_matching)

MatchNext ==
  /\ asked.function = "none"
  /\ \/ CreateVIDPID \/ CreateVIDPIDRevision \/ CreateVIDPIDs \/ CreateVIDPIDsRevision
     \/ CreateSubclassProtocol \/ CreateUserService

MatchSpec == MatchInit /\ [][MatchNext]_matchVars

-----------------------------------------------------------------------------
(* What IOKit does with the dictionary                                     *)

(* The combinations of keys that the matching of USB interfaces accepts    *)
(* (Technical Q&A 1076, to which the source refers); "Deviating from these *)
(* matching patterns will typically cause matching to fail!"               *)
VendorPattern == {"IOProviderClass", "idVendor", "bInterfaceNumber", "bConfigurationValue"}

Patterns ==
  {VendorPattern \union {product} \union revision :
     product \in {"idProduct", "idProductArray"}, revision \in {{}, {"bcdDevice"}}}
  \union {{"IOProviderClass", "idVendor", "bInterfaceSubClass", "bInterfaceProtocol"}}

Services ==
  [IOProviderClass : {"IOUSBHostInterface", "IOUSBInterface"},
   idVendor : Word16, idProduct : Word16, bcdDevice : Word16,
   bInterfaceNumber : Word8, bConfigurationValue : Word8,
   bInterfaceSubClass : Word8, bInterfaceProtocol : Word8]
  \union [IOProviderClass : {"IOUserService"}, IOUserClass : Names, CFBundleIdentifier : Names]

Agrees(service, key) ==
  IF key = "idProductArray" THEN service.idProduct \in match[key]
  ELSE service[key] = match[key]

Matches(service) ==
  /\ service.IOProviderClass = match.IOProviderClass
  /\ match.IOProviderClass # "IOUserService" => DOMAIN match \in Patterns
  /\ \A key \in DOMAIN match : Agrees(service, key)

-----------------------------------------------------------------------------
(* What the caller describes, read off the arguments.                      *)
IsUSBInterface(service, a) ==
  /\ service.IOProviderClass = usb_interface_classname(a.modern_iousbhost_classnames)
  /\ service.idVendor = a.vendor_id

Describes(function, a, service) ==
  IF function = "user_service"
  THEN /\ service.IOProviderClass = "IOUserService"
       /\ service.IOUserClass = a.driverkit_classname
       /\ service.CFBundleIdentifier = a.driverkit_server_bundle_id
  ELSE IF function = "SubclassProtocol"
  THEN /\ IsUSBInterface(service, a)
       /\ service.bInterfaceSubClass = a.interface_subclass
       /\ service.bInterfaceProtocol = a.interface_protocol
  ELSE /\ IsUSBInterface(service, a)
       /\ service.idProduct \in IF function \in {"VIDPIDs", "VIDPIDsRevision"}
                                THEN a.product_ids ELSE {a.product_id}
       /\ service.bInterfaceNumber = a.interface_number
       /\ service.bConfigurationValue = a.configuration_value
       /\ function \in {"VIDPIDRevision", "VIDPIDsRevision"} =>
             service.bcdDevice = a.revision_bcd_device

(* A dictionary matches the services the caller described, all of them and *)
(* no others, unless the caller asked for a release that does not fit into *)
(* a byte: 1.00 is 0x0100, and is cut to 0.                                *)
MatchesWhatIsDescribed ==
  asked.function # "none" /\ asked.arguments.revision_bcd_device < ByteRange =>
    \A service \in Services :
      Matches(service) <=> Describes(asked.function, asked.arguments, service)

-----------------------------------------------------------------------------
(* The inductive invariant: the dictionary is that of the function called. *)
DictionaryOf(function, a) ==
  CASE function = "VIDPID" -> VIDPIDMatch(a)
    [] function = "VIDPIDRevision" -> VIDPIDRevisionMatch(a)
    [] function = "VIDPIDs" -> VIDPIDsMatch(a)
    [] function = "VIDPIDsRevision" -> VIDPIDsRevisionMatch(a)
    [] function = "SubclassProtocol" -> VIDVendorSpecificSubclassProtocolMatch(a)
    [] function = "user_service" -> djt_user_service_matching(a)

MatchFunctions ==
  {"VIDPID", "VIDPIDRevision", "VIDPIDs", "VIDPIDsRevision", "SubclassProtocol", "user_service"}

MatchInv ==
  asked.function # "none" =>
    /\ asked.function \in MatchFunctions
    /\ asked.arguments \in Arguments
    /\ match = DictionaryOf(asked.function, asked.arguments)
=============================================================================
