------------------------------ MODULE MCInput ------------------------------
EXTENDS Input

MCDesktop == <<3, 2>>
\* The size Windows tells: that of the pictures, or half of it on a scaled display.
MCScreen == MCDesktop
MCScaled == <<2, 1>>
MCPlaceholder == <<2, 1>>
\* Bars above and below, and bars on both sides.
MCWindows == {<<2, 3>>, <<6, 1>>}
MCScrolls == {<<1, -5>>, <<-2, 1>>}
MCKeys == {"LeftCtrl", "RightCtrl", "Unknown"}
=============================================================================
