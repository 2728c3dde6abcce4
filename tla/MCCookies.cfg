SPECIFICATION CookieSpec
CONSTANTS
  Arguments <- MCArguments
  Foreign <- MCForeign
  MaxJar = 4
INVARIANT ReadsWhatItWrote
