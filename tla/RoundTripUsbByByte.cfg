\* A system exclusive message sent byte by byte over USB.
CONSTANTS
    Bytes <- Uint8
    Callback <- Specific
    Leftover = {0}
    CountRange = 16
    Cable = {"usb"}
    Operation <- ByteByByteOverUsb
    MaxUnderWay = 1
SPECIFICATION TripSpec
PROPERTIES
    HeardAsSent
