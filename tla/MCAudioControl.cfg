SPECIFICATION ControlSpec
INVARIANTS SettingsInOrder
PROPERTIES SdaSteady SuccessIsAnswered AllReceived
