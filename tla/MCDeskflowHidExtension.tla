----------------------- MODULE MCDeskflowHidExtension -----------------------
\* Two devices that take either of two ports, and a process object for each
\* device and port.
EXTENDS DeskflowHidExtension
MCProcesses == 1..(DeviceCount + PathCount)
=============================================================================
