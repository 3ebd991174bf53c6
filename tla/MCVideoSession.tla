----------------------------- MODULE MCVideoSession ----------------------------
\* Instances of VideoSession for TLC.
EXTENDS VideoSession, TLC

Symmetry == Permutations(Widgets)

VideosAndCamera == <<"Video", "Camera", "Video">>
TwoVideos == <<"Video", "Video">>
================================================================================
