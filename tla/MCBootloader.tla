---------------------------- MODULE MCBootloader ----------------------------
(* The bootloader with small delays, a two-key target and a three-key      *)
(* buffer.  Row 0 stands for the boot transcript.                          *)
EXTENDS BootloaderScene

MCKey == {"r", "i", "a", "enter", "f1"}
MCPrintable == {"r", "i", "a"}
MCTarget == <<"a", "i">>
=============================================================================
