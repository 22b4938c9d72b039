------------------------------- MODULE MCDisplay -------------------------------
(* Every firmware that reports one to three modes out of eight: the smallest, *)
(* the widest, pairs equally far from a request, and the smallest size at     *)
(* which text clears the digest and the logo.  And the list of OVMF under     *)
(* qemu's default device (docs/plans/PLAN-display-mode-keystrokes.md:183).    *)
EXTENDS Display

Reported == {<<640, 480>>, <<664, 660>>, <<896, 768>>, <<1152, 768>>,
             <<1280, 640>>, <<1280, 800>>, <<1920, 1080>>, <<2560, 1600>>}

MCModeLists == UNION {[1..n -> Reported] : n \in 1..3}

Ovmf == << <<1280, 800>>, <<640, 480>>, <<800, 480>>, <<800, 600>>, <<832, 624>>,
           <<960, 640>>, <<1024, 600>>, <<1024, 768>>, <<1152, 864>>, <<1152, 870>>,
           <<1280, 720>>, <<1280, 760>>, <<1280, 768>>, <<1280, 960>>, <<1280, 1024>>,
           <<1360, 768>>, <<1366, 768>>, <<1400, 1050>>, <<1440, 900>>, <<1600, 900>>,
           <<1600, 1200>>, <<1680, 1050>>, <<1920, 1080>>, <<1920, 1200>>, <<1920, 1440>>,
           <<2000, 2000>>, <<2048, 1536>>, <<2048, 2048>>, <<2560, 1440>>, <<2560, 1600>> >>

MCShipped == {Ovmf}
=============================================================================
