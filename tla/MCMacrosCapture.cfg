SPECIFICATION MacroSpec
CONSTANT CAPTURING = TRUE
PROPERTY Hygienic
