CONSTANTS
    MaxTaps = 1
    MaxEvents = 3
SPECIFICATION FairSpec
INVARIANTS PollsComeBack
PROPERTIES PhoneLetsGo CoastCommanded
