SPECIFICATION EitherSpec
CONSTANTS
  Strings <- MCStrings
  Devices <- MCDevices
  Crcs <- MCCrcs
  Strs <- MCStrs
  DevLists <- MCDevLists
  PhysLists <- MCPhysLists
  Kinds = {"insert", "assign", "sorted"}
  MaxPips = 2
INVARIANTS NamesResolve PipsLeadAsInDevice NamesAgree PipsNamed
