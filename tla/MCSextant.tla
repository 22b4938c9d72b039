------------------------------ MODULE MCSextant ------------------------------
(* A short run: two transcript lines before the bootloader and one after,  *)
(* two video modes, a one-key target.                                      *)
EXTENDS SextantScene

MCKey == {"r", "i", "a", "enter", "1", "0"}
MCPrintable == {"r", "i", "a", "1", "0"}
MCTarget == <<"a">>
MCModeKey == {"1"}
MCModeList == <<"small", "large">>
=============================================================================
