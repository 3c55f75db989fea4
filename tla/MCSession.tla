------------------------------ MODULE MCSession ------------------------------
EXTENDS Session

Fingerprints == 1..MaxHosts

\* The builds there have been, each with one feature more, and builds that have a
\* later feature without the one it rests on.
MCBuilds ==
  {{}, {"hybrid_video"}, {"hybrid_video", "desktop_optimizations"},
   {"hybrid_video", "desktop_optimizations", "h264_nal_datagrams"},
   Feature \ {"av1_software"}, Feature,
   Feature \ {"hybrid_video"}, {"hybrid_video", "desktop_selective_retransmit"}}
=============================================================================
