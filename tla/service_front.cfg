SPECIFICATION Spec
CHECK_DEADLOCK FALSE
CONSTANTS
  Files <- MCFiles
  Environments <- MCEnvironments
  CommandLines <- MCCommandLines
  Requests <- MCRequests
  Tokens <- MCTokens
  InitialLedger <- MCLedger
  Revocable = {1}
  Times = {1}
  Window = 2
  MaxCalls = 1
INVARIANTS StartedSafely RoutesUnambiguous RateBound RevokedStaysOut CapabilitiesMatch
PROPERTIES DeniedNotContacted OptionsTruthful
VIEW WhatMatters
